---- MODULE Spec2Model ----
(***************************************************************************)
(* credit_risk_rating.rating.system: the immutable containers RatingScale  *)
(* and Metadata (_mappings.py), the rating systems built on them           *)
(* (_base.py, _one_dimensional.py, _two_dimensional.py) and the class      *)
(* factory create_custom_class.                                            *)
(*                                                                         *)
(* Python objects are modelled by value.  A key (a rating grade or a       *)
(* metadata field name) is a TLA+ string that names a Python literal and   *)
(* PyType gives its Python type; a value is a record [ty, n].  A dict is a *)
(* function from a finite set of keys to values: its insertion order is    *)
(* not modelled, and wherever the code turns a dict into a sequence the    *)
(* keys come in the order of KeyOrder.                                     *)
(*                                                                         *)
(* _one_dimensional.py and _two_dimensional.py import the names RatingMap  *)
(* and PDLGDRatingSystemConfig, which _mappings.py and _base.py define as  *)
(* RatingScale and TwoDimensionsalRatingSystemConfig (__init__.py: "note:  *)
(* RatingMap is now RatingScale").  The model reads RatingMap as           *)
(* RatingScale.                                                            *)
(*                                                                         *)
(* RatingScale declares _post_init_setup abstract and Metadata's           *)
(* _validate_data raises on every input, so neither class can produce an   *)
(* instance itself.  Every isinstance test and every self.__class__(...)   *)
(* of the code admits subclasses, and the containers a program can hold    *)
(* are instances of client subclasses: ClientScale implements the abstract *)
(* hook _post_init_setup, ClientMetadata overrides _validate_data with the *)
(* body of the base hook.  Everything else they run is the code of         *)
(* _mappings.py.                                                           *)
(***************************************************************************)
EXTENDS Integers, Sequences, FiniteSets, TLC

VARIABLES
    classes,    \* rating-system classes: class name -> [base, config]
    call,       \* the last constructor call of a rating system: class and arguments
    sys,        \* the instance the last constructor call returned (NoInstance: it raised)
    exc,        \* the exception the last operation raised (NoExc: it returned)
    exported,   \* the last to_dict() result of sys
    restored,   \* the instance the last from_dict() returned
    rebinds,    \* the number of attribute assignments made on sys
    store,      \* containers: the dict objects, by place
    cell,       \* containers: content of the mutable value object (a list)
    c,          \* containers: the container under test
    proj,       \* containers: the projection the caller holds
    mexc,       \* containers: the exception the last operation raised
    mop,        \* containers: the last operation of the caller
    derived,    \* containers: the container the last add or subset returned
    req,        \* containers: the argument of the last construction, add or subset
    held,       \* the configuration dict the caller holds, and what it shares with a class
    procs,      \* concurrent callers: each one's call and how far it has run
    loss        \* the last get_expected_loss call and what it returned

sysVars == <<classes, call, sys, exc, exported, restored, rebinds, held, procs, loss>>
callerVars == <<held, procs, loss>>
newVars == <<derived, req>>
mapVars == <<store, cell, c, proj, mexc, mop, derived, req>>
vars == <<classes, call, sys, exc, exported, restored, rebinds,
          store, cell, c, proj, mexc, mop, derived, req, held, procs, loss>>

-----------------------------------------------------------------------------
(* Bounds *)

\* longest required-grades list a class configuration holds
MaxReq == 2
\* largest content the mutable value object takes
MaxCell == 2
\* most attribute assignments a caller makes on one rating system
MaxRebind == 1
\* most entries of a mapping a caller passes to a container
MaxKeys == 2
\* most edits a caller makes to one configuration dict
MaxEdits == 2
\* most calls the concurrent callers start
MaxCalls == 3

-----------------------------------------------------------------------------
(* Python values *)

IntKeys == {"1", "2"}
StrKeys == {"A", "B", "institution", "portfolio"}
\* reserved words
KeywordKeys == {"class"}

\* type(key).__name__: besides the int and str keys there are the keys
\* 1.5, None and the tuple (1, 2); every other key is a string, among them
\* "my-key", which is no identifier, and "_frozen", the name of an
\* attribute the container keeps for itself
PyType(k) ==
    CASE k \in IntKeys -> "int"
      [] k = "1.5" -> "float"
      [] k = "None" -> "NoneType"
      [] k = "(1, 2)" -> "tuple"
      [] OTHER -> "str"

\* the order sorted() and dict iteration give to the keys of one type
KeyOrder == <<"1", "2", "A", "B", "institution", "portfolio",
              "1.5", "None", "(1, 2)", "my-key", "class", "_frozen">>

PyFloat(n) == [ty |-> "float", n |-> n]
PyInt(n) == [ty |-> "int", n |-> n]
PyStr(n) == [ty |-> "str", n |-> n]
PyNone == [ty |-> "NoneType", n |-> 0]
\* a reference to the mutable value object (a list); its content is cell
ListRef == [ty |-> "list", n |-> 0]
PyTrue == [ty |-> "bool", n |-> 1]
PyFalse == [ty |-> "bool", n |-> 0]
Unset == [ty |-> "unset", n |-> 0]

EmptyDict == [k \in {} |-> Unset]

SetOf(seq) == {seq[i] : i \in DOMAIN seq}

\* the elements of S in the order of KeyOrder
InOrder(S) == SelectSeq(KeyOrder, LAMBDA k : k \in S)

\* sorted(S) raises TypeError when S holds both int and str
Sortable(S) == \A a, b \in S : PyType(a) = PyType(b)

-----------------------------------------------------------------------------
(* Exceptions *)

\* an exception: its class, the function that raised it and what its
\* message enumerates, one line per item
Raise(type, at, lines) == [type |-> type, at |-> at, lines |-> lines]
NoExc == Raise("none", "none", <<>>)
Line(label, items) == [label |-> label, items |-> items]

Raised(e) == e.type # "none"

\* the value of a field of an exception, written as a line: a key, a list
\* of keys, None, or a text (a Line that says what it enumerates)
KeyValue(k) == Line("key", <<k>>)
ListValue(items) == Line("list", items)
NoneValue == Line("None", <<>>)
Field(name, value) == Line(name \o ": " \o value.label, value.items)
HasLine(e, line) == \E i \in DOMAIN e.lines : e.lines[i] = line

\* RatingScaleError.__init__(message, rating=None, available_ratings=None)
RatingScaleError_init(at, message, rating, available_ratings) ==
    Raise("RatingScaleError", at,
          <<message, Field("rating", rating),
            Field("available_ratings",
                  IF available_ratings = NoneValue THEN ListValue(<<>>)
                  ELSE available_ratings)>>)
\* MetadataError.__init__(message, key=None)
MetadataError_init(at, message, key) ==
    Raise("MetadataError", at, message \o <<Field("key", key)>>)

-----------------------------------------------------------------------------
(* _mappings.py: the immutable containers *)

ScaleClasses == {"RatingScale", "ClientScale"}
MetadataClasses == {"Metadata", "ClientMetadata"}

\* cls.__abstractmethods__: RatingScale redeclares _post_init_setup with
\* @abstractmethod; Metadata and the client subclasses leave none abstract
AbstractMethods(cls) == IF cls = "RatingScale" THEN {"_post_init_setup"} ELSE {}

\* a call argument: the class of the object passed and, for a mapping or a
\* container, its entries
Arg(cls, data) == [cls |-> cls, data |-> data]
NoneArg == Arg("NoneType", EmptyDict)
OtherArg == Arg("list", EmptyDict)

\* bool(data) of a constructor argument
Truthy(arg) == arg.cls # "NoneType" /\ DOMAIN arg.data # {}

\* a container instance: its class, self._data, self._frozen and the
\* attributes object.__setattr__ has set from the entries
Container(cls, data, frozen, fields) ==
    [cls |-> cls, data |-> data, frozen |-> frozen, fields |-> fields]
NoContainer == Container("none", EmptyDict, Unset, EmptyDict)

Returns(obj) == [exc |-> NoExc, obj |-> obj]
Throws(e, none) == [exc |-> e, obj |-> none]

\* str.isidentifier()
IsIdentifier(k) == k \in StrKeys \cup KeywordKeys \cup {"_frozen"}

\* RatingScale._validate_data: the raise evaluates ', '.join([grade_errors]),
\* which itself raises TypeError (a list is no str), so the error that
\* leaves carries neither the grades nor the values
RatingScale_validate_data(data) ==
    LET grade_errors == {g \in DOMAIN data : PyType(g) \notin {"str", "int"}}
        value_errors == {g \in DOMAIN data : data[g].ty # "float"}
    IN  IF grade_errors # {} \/ value_errors # {}
        THEN Raise("TypeError", "RatingScale._validate_data", <<>>)
        ELSE NoExc

\* Metadata._validate_data: key.isidentifier() of a key that is no str raises
\* AttributeError inside the loop; after the loop the raise is unconditional.
\* Each entry of key_errors is the text "Metadata key must be string, got
\* <type>" and names no key
Metadata_validate_data(data) ==
    LET key_errors == {k \in DOMAIN data : ~IsIdentifier(k)}
    IN  IF \E k \in DOMAIN data : PyType(k) # "str"
        THEN Raise("AttributeError", "Metadata._validate_data", <<>>)
        ELSE Raise("MetadataError", "Metadata._validate_data",
                   <<Line("Metadata key must be string, got",
                          [i \in 1..Cardinality(key_errors) |-> "str"])>>)

\* self._validate_data() by the class of self
validate_data(cls, data) ==
    CASE cls = "ClientMetadata" -> NoExc
      [] cls = "Metadata" -> Metadata_validate_data(data)
      [] OTHER -> RatingScale_validate_data(data)

\* object.__setattr__(self, key, value) for every entry of self._data: a key
\* that is no str raises TypeError; a key named _frozen lands on the flag
SetAttrs(obj) ==
    IF \E k \in DOMAIN obj.data : PyType(k) # "str"
    THEN Throws(Raise("TypeError", "object.__setattr__", <<>>), NoContainer)
    ELSE Returns([obj EXCEPT
            !.fields = [k \in (DOMAIN obj.fields \cup DOMAIN obj.data) \ {"_frozen"} |->
                            IF k \in DOMAIN obj.data THEN obj.data[k] ELSE obj.fields[k]],
            !.frozen = IF "_frozen" \in DOMAIN obj.data
                       THEN obj.data["_frozen"] ELSE obj.frozen])

\* self._post_init_setup(): Metadata sets the attributes, a scale sets none
post_init_setup(obj) ==
    IF obj.cls \in MetadataClasses THEN SetAttrs(obj) ELSE Returns(obj)

\* _ImmutableMapping.__init__, run by cls(data); for a Metadata followed by
\* the loop of Metadata.__init__, which sets the attributes once more
ImmutableMapping_init(cls, arg) ==
    IF AbstractMethods(cls) # {}
    THEN Throws(Raise("TypeError", "ABCMeta.__call__", <<>>), NoContainer)
    ELSE
    LET data == IF Truthy(arg) THEN arg.data ELSE EmptyDict
        e1 == validate_data(cls, data)
        r2 == post_init_setup(Container(cls, data, Unset, EmptyDict))
        frozen == [r2.obj EXCEPT !.frozen = PyTrue]
    IN  IF Raised(e1) THEN Throws(e1, NoContainer)
        ELSE IF Raised(r2.exc) THEN r2
        ELSE IF cls \in MetadataClasses THEN SetAttrs(frozen)
        ELSE Returns(frozen)

\* a from_dict that drops its argument
Empty_from_dict(cls, arg) == ImmutableMapping_init(cls, NoneArg)
\* _ImmutableMapping.from_dict, through the from_dict of RatingScale and Metadata
Mapping_from_dict(cls, arg) == ImmutableMapping_init(cls, arg)

\* dict.update with the entries of the container first: an entry of the
\* container stays and additional_items only brings new keys
Kept_combined_data(data, additional_items) ==
    [k \in DOMAIN data \cup DOMAIN additional_items |->
        IF k \in DOMAIN data THEN data[k] ELSE additional_items[k]]
\* combined_data = dict(self._data); combined_data.update(additional_items)
combined_data(data, additional_items) ==
    [k \in DOMAIN data \cup DOMAIN additional_items |->
        IF k \in DOMAIN additional_items THEN additional_items[k] ELSE data[k]]

\* _ImmutableMapping._add_items, reached through add_rating_grades and
\* add_metadata: return self.__class__(combined_data)
add_items(cls, data, additional_items) ==
    ImmutableMapping_init(cls, Arg("dict", combined_data(data, additional_items)))

\* the key a tuple of keys is when it is used as one
TupleKey(keys) == IF keys = <<"1", "2">> THEN "(1, 2)" ELSE "(...)"
\* if not isinstance(grades, list): grades = [grades]
AsList(request) ==
    CASE request.kind = "list" -> request.items
      [] request.kind = "tuple" -> <<TupleKey(request.items)>>
      [] OTHER -> <<request.items[1]>>

\* a subset that drops nothing
Whole_subset_data(data, keys) == data
\* {key: self._data[key] for key in keys}
subset_data(data, keys) == [k \in SetOf(keys) |-> data[k]]

\* RatingScale.subset_grades: the second positional argument of
\* RatingScaleError is rating, so the text of the available grades lands in
\* the field rating and available_ratings stays at its default
subset_grades(cls, data, request) ==
    LET grades == AsList(request)
        missing_grades == SelectSeq(grades, LAMBDA g : g \notin DOMAIN data)
        available_grades == InOrder(DOMAIN data)
    IN  IF missing_grades # <<>>
        THEN Throws(RatingScaleError_init("RatingScale.subset_grades",
                        Line("Rating grades not found", missing_grades),
                        Line("Available rating grades", available_grades),
                        NoneValue),
                    NoContainer)
        ELSE Mapping_from_dict(cls, Arg("dict", subset_data(data, grades)))

\* Metadata.subset_metadata
subset_metadata(cls, data, request) ==
    LET metadata_items == AsList(request)
        missing_keys == SelectSeq(metadata_items, LAMBDA k : k \notin DOMAIN data)
        available_keys == InOrder(DOMAIN data)
    IN  IF missing_keys # <<>>
        THEN Throws(MetadataError_init("Metadata.subset_metadata",
                        <<Line("Keys not found in metadata", missing_keys),
                          Line("Available keys", available_keys)>>,
                        IF Len(missing_keys) = 1 THEN KeyValue(missing_keys[1])
                        ELSE NoneValue),
                    NoContainer)
        ELSE ImmutableMapping_init(cls, Arg("dict", subset_data(data, metadata_items)))

\* the base of a class; ClientSubScale is a client's subclass of its own
\* scale class
Parent(cls) ==
    CASE cls = "ClientSubScale" -> "ClientScale"
      [] cls = "ClientScale" -> "RatingScale"
      [] cls = "ClientMetadata" -> "Metadata"
      [] cls \in {"RatingScale", "Metadata"} -> "_ImmutableMapping"
      [] OTHER -> "object"
\* isinstance(x, of) by the class of x
IsSubclass(cls, of) == cls = of \/ Parent(cls) = of \/ Parent(Parent(cls)) = of
IsMapping(x) == IsSubclass(x.cls, "RatingScale") \/ IsSubclass(x.cls, "Metadata")

\* an equality that looks at the entries only
Data_eq(self, other) == self.data = other.data
\* _ImmutableMapping.__eq__
Mapping_eq(self, other) ==
    IF ~IsSubclass(other.cls, self.cls) THEN FALSE ELSE self.data = other.data
\* x == y: the __eq__ of the right operand runs first when its class is a
\* proper subclass of the left operand's; dict.__eq__ returns
\* NotImplemented for a container and the container's __eq__ then decides
PyEq(x, y) ==
    CASE IsMapping(y) /\ y.cls # x.cls /\ IsSubclass(y.cls, x.cls) -> Mapping_eq(y, x)
      [] IsMapping(x) -> Mapping_eq(x, y)
      [] IsMapping(y) -> Mapping_eq(y, x)
      [] OTHER -> x.cls = y.cls /\ x.data = y.data

IsScale(x) == x.cls \in ScaleClasses
IsMetadata(x) == x.cls \in MetadataClasses

-----------------------------------------------------------------------------
(* _base.py: class configurations and BaseRatingSystem *)

\* a key of a configuration dict: absent, or present with its list
Absent == [present |-> FALSE, list |-> <<>>]
Present(l) == [present |-> TRUE, list |-> l]

\* required_grade_dimensions: absent, or a dict that may hold "pd" and "lgd"
NoDimensions == [present |-> FALSE, pd |-> Absent, lgd |-> Absent]
Dimensions(pd, lgd) == [present |-> TRUE, pd |-> pd, lgd |-> lgd]

\* RatingSystemConfig / TwoDimensionsalRatingSystemConfig (total=False)
Config(rg, rm, dims) ==
    [required_grades |-> rg, required_metadata |-> rm, required_grade_dimensions |-> dims]

\* BaseRatingSystem._CONFIG = {}
EmptyConfig == Config(Absent, Absent, NoDimensions)

\* bool(config): a dict with a key is true
ConfigTruthy(cfg) ==
    \/ cfg.required_grades.present
    \/ cfg.required_metadata.present
    \/ cfg.required_grade_dimensions.present

\* config.get(key, []) of a list-valued key
GetList(opt) == IF opt.present THEN opt.list ELSE <<>>

BaseShapes == {"OneDimensionalRatingSystem", "PDLGDRatingSystem"}
NoClass == [base |-> "none", config |-> EmptyConfig]
\* a base shape as a class: it inherits _CONFIG = {} from BaseRatingSystem
BaseClass == [base |-> "BaseRatingSystem", config |-> EmptyConfig]

\* the base shape a class derives from, along its bases
RECURSIVE ShapeOf(_)
ShapeOf(name) == IF name \in BaseShapes THEN name ELSE ShapeOf(classes[name].base)

\* cls._CONFIG: the dict create_custom_class bound, or the inherited {}
ConfigOf(name) == classes[name].config

\* the container an argument of class ClientScale or ClientMetadata is: the
\* instance cls(data) returned to the caller earlier
InstanceOf(arg) == ImmutableMapping_init(arg.cls, Arg("dict", arg.data)).obj

\* BaseRatingSystem._process_metadata_input
process_metadata_input(metadata) ==
    IF IsMetadata(metadata) THEN Returns(InstanceOf(metadata))
    ELSE IF metadata.cls \in {"dict", "NoneType"} THEN Mapping_from_dict("Metadata", metadata)
    ELSE Throws(Raise("RatingScaleInputError", "_process_metadata_input",
                      <<Line("Found type", <<metadata.cls>>)>>), NoContainer)

\* a check that stops at the first required field that is absent
FirstMissing_required_metadata(cfg, metadata) ==
    LET required_metadata == GetList(cfg.required_metadata)
        missing_metadata ==
            SelectSeq(required_metadata, LAMBDA field : field \notin DOMAIN metadata.data)
    IN  IF missing_metadata # <<>>
        THEN Raise("RatingValidationError", "_validate_required_metadata",
                   << Line("Missing required metadata fields", <<Head(missing_metadata)>>),
                      Line("Required", required_metadata),
                      Line("Available", InOrder(DOMAIN metadata.data)) >>)
        ELSE NoExc
\* BaseRatingSystem._validate_required_metadata
validate_required_metadata(cfg, metadata) ==
    LET required_metadata == GetList(cfg.required_metadata)
        missing_metadata ==
            SelectSeq(required_metadata, LAMBDA field : field \notin DOMAIN metadata.data)
    IN  IF ~ConfigTruthy(cfg) THEN NoExc
        ELSE IF required_metadata = <<>> THEN NoExc
        ELSE IF missing_metadata # <<>>
        THEN Raise("RatingValidationError", "_validate_required_metadata",
                   << Line("Missing required metadata fields", missing_metadata),
                      Line("Required", required_metadata),
                      Line("Available", InOrder(DOMAIN metadata.data)) >>)
        ELSE NoExc

\* BaseRatingSystem.__init__
Base_init(cfg, metadata) ==
    LET r == process_metadata_input(metadata)
        e == validate_required_metadata(cfg, r.obj)
    IN  IF Raised(r.exc) THEN r
        ELSE IF Raised(e) THEN Throws(e, NoContainer)
        ELSE r

\* a rating-system instance: its identity, its class and its attributes
Instance(id, cls, attrs) == [id |-> id, cls |-> cls, attrs |-> attrs]
NoInstance == Instance(0, "none", EmptyDict)

-----------------------------------------------------------------------------
(* _one_dimensional.py *)

\* OneDimensionalRatingSystem._process_rating_scale_input and
\* PDLGDRatingSystem._process_rating_scale_input
process_rating_scale_input(rating_scale, dimension_name) ==
    IF IsScale(rating_scale) THEN Returns(InstanceOf(rating_scale))
    ELSE IF rating_scale.cls \in {"dict", "NoneType"}
    THEN Mapping_from_dict("RatingScale", rating_scale)
    ELSE Throws(Raise("RatingScaleInputError", "_process_rating_scale_input",
                      <<Line("Found type", <<rating_scale.cls>>)>>), NoContainer)

\* the exact-match comparison of _validate_required_grades and of
\* _validate_dimension_grades: the message lines, or the TypeError of a
\* sorted() over grades of both types.  prefix is "" or the dimension name
GradeLines(actual_grades, required_grades, prefix) ==
    LET required_grades_set == SetOf(required_grades)
        missing_grades == required_grades_set \ actual_grades
        extra_grades == actual_grades \ required_grades_set
        sorts == (IF missing_grades # {} THEN {missing_grades} ELSE {})
                 \cup (IF extra_grades # {} THEN {extra_grades} ELSE {})
                 \cup (IF missing_grades # {} \/ extra_grades # {}
                       THEN {actual_grades} ELSE {})
    IN  IF \E S \in sorts : ~Sortable(S)
        THEN [exc |-> Raise("TypeError", "sorted", <<>>), lines |-> <<>>]
        ELSE [exc |-> NoExc,
              lines |->
                (IF missing_grades # {}
                 THEN <<Line(prefix \o "missing required grades", InOrder(missing_grades))>>
                 ELSE <<>>)
                \o (IF extra_grades # {}
                    THEN <<Line(prefix \o "extra grades not allowed", InOrder(extra_grades))>>
                    ELSE <<>>)
                \o (IF missing_grades # {} \/ extra_grades # {}
                    THEN << Line(prefix \o "required grades", required_grades),
                            Line(prefix \o "actual grades", InOrder(actual_grades)) >>
                    ELSE <<>>)]

\* OneDimensionalRatingSystem._validate_required_grades
validate_required_grades(cfg, rating_scale) ==
    LET required_grades == GetList(cfg.required_grades)
        g == GradeLines(DOMAIN rating_scale.data, required_grades, "")
    IN  IF ~ConfigTruthy(cfg) THEN NoExc
        ELSE IF required_grades = <<>> THEN NoExc
        ELSE IF Raised(g.exc) THEN g.exc
        ELSE IF g.lines # <<>>
        THEN Raise("RatingValidationError", "_validate_required_grades", g.lines)
        ELSE NoExc

\* a constructor that validates the grades before it looks at the metadata
Grades_first_init(id, cls, rating_scale, metadata) ==
    LET r1 == process_rating_scale_input(rating_scale, "")
        r2 == Base_init(ConfigOf(cls), metadata)
        e3 == validate_required_grades(ConfigOf(cls), r1.obj)
    IN  IF Raised(r1.exc) THEN Throws(r1.exc, NoInstance)
        ELSE IF Raised(e3) THEN Throws(e3, NoInstance)
        ELSE IF Raised(r2.exc) THEN Throws(r2.exc, NoInstance)
        ELSE Returns(Instance(id, cls,
                [a \in {"rating_scale", "metadata"} |->
                    IF a = "rating_scale" THEN r1.obj ELSE r2.obj]))
\* OneDimensionalRatingSystem.__init__
OneDimensional_init(id, cls, rating_scale, metadata) ==
    LET r1 == process_rating_scale_input(rating_scale, "")
        r2 == Base_init(ConfigOf(cls), metadata)
        e3 == validate_required_grades(ConfigOf(cls), r1.obj)
    IN  IF Raised(r1.exc) THEN Throws(r1.exc, NoInstance)
        ELSE IF Raised(r2.exc) THEN Throws(r2.exc, NoInstance)
        ELSE IF Raised(e3) THEN Throws(e3, NoInstance)
        ELSE Returns(Instance(id, cls,
                [a \in {"rating_scale", "metadata"} |->
                    IF a = "rating_scale" THEN r1.obj ELSE r2.obj]))

\* a factory whose class keeps the required_metadata of the class it extends
\* when the configuration names none
Inheriting_create_custom_class(cls, config) ==
    IF ~config.required_grades.present
    THEN Throws(Raise("RatingScaleInputError", "create_custom_class",
                      <<Line("Configuration must include", <<"required_grades">>)>>), NoClass)
    ELSE Returns([base |-> cls,
                  config |-> IF config.required_metadata.present THEN config
                             ELSE [config EXCEPT !.required_metadata =
                                                     ConfigOf(cls).required_metadata]])
\* OneDimensionalRatingSystem.create_custom_class: the new class, or the error
OneDimensional_create_custom_class(cls, config) ==
    IF ~config.required_grades.present
    THEN Throws(Raise("RatingScaleInputError", "create_custom_class",
                      <<Line("Configuration must include", <<"required_grades">>)>>), NoClass)
    ELSE Returns([base |-> cls, config |-> config])

-----------------------------------------------------------------------------
(* _two_dimensional.py *)

\* a superset comparison: the grades outside the required list are not looked at
Superset_dimension_grades(rating_scale, required_grades, dimension_name) ==
    GradeLines(DOMAIN rating_scale.data \cap SetOf(required_grades), required_grades,
               dimension_name \o " ")
\* PDLGDRatingSystem._validate_dimension_grades
validate_dimension_grades(rating_scale, required_grades, dimension_name) ==
    GradeLines(DOMAIN rating_scale.data, required_grades, dimension_name \o " ")

\* PDLGDRatingSystem._validate_required_grade_dimensions
validate_required_grade_dimensions(cfg, pd_rating_scale, lgd_rating_scale) ==
    LET required_dimensions == cfg.required_grade_dimensions
        none == [exc |-> NoExc, lines |-> <<>>]
        pd_errors == IF required_dimensions.pd.present
                     THEN validate_dimension_grades(
                              pd_rating_scale, required_dimensions.pd.list, "PD")
                     ELSE none
        lgd_errors == IF required_dimensions.lgd.present
                      THEN validate_dimension_grades(
                               lgd_rating_scale, required_dimensions.lgd.list, "LGD")
                      ELSE none
        error_messages == pd_errors.lines \o lgd_errors.lines
    IN  IF ~ConfigTruthy(cfg) THEN NoExc
        ELSE IF ~(required_dimensions.pd.present \/ required_dimensions.lgd.present)
        THEN NoExc
        ELSE IF Raised(pd_errors.exc) THEN pd_errors.exc
        ELSE IF Raised(lgd_errors.exc) THEN lgd_errors.exc
        ELSE IF error_messages # <<>>
        THEN Raise("RatingValidationError", "_validate_required_grade_dimensions",
                   error_messages)
        ELSE NoExc

\* PDLGDRatingSystem.__init__
PDLGD_init(id, cls, pd_rating_scale, lgd_rating_scale, metadata) ==
    LET r1 == process_rating_scale_input(pd_rating_scale, "pd")
        r2 == process_rating_scale_input(lgd_rating_scale, "lgd")
        r3 == Base_init(ConfigOf(cls), metadata)
        e4 == validate_required_grade_dimensions(ConfigOf(cls), r1.obj, r2.obj)
    IN  IF Raised(r1.exc) THEN Throws(r1.exc, NoInstance)
        ELSE IF Raised(r2.exc) THEN Throws(r2.exc, NoInstance)
        ELSE IF Raised(r3.exc) THEN Throws(r3.exc, NoInstance)
        ELSE IF Raised(e4) THEN Throws(e4, NoInstance)
        ELSE Returns(Instance(id, cls,
                [a \in {"pd_rating_scale", "lgd_rating_scale", "metadata"} |->
                    CASE a = "pd_rating_scale" -> r1.obj
                      [] a = "lgd_rating_scale" -> r2.obj
                      [] OTHER -> r3.obj]))

\* a factory that looks for required_grade_dimensions and not for its keys
Unkeyed_create_custom_class(cls, config) ==
    IF ~config.required_grade_dimensions.present
    THEN Throws(Raise("RatingScaleInputError", "create_custom_class",
              <<Line("Configuration must include", <<"required_grade_dimensions">>)>>),
              NoClass)
    ELSE Returns([base |-> cls, config |-> config])
\* PDLGDRatingSystem.create_custom_class: the new class, or the error
PDLGD_create_custom_class(cls, config) ==
    LET dimensions == config.required_grade_dimensions
    IN  IF ~dimensions.present
        THEN Throws(Raise("RatingScaleInputError", "create_custom_class",
                  <<Line("Configuration must include", <<"required_grade_dimensions">>)>>),
                  NoClass)
        ELSE IF ~dimensions.pd.present \/ ~dimensions.lgd.present
        THEN Throws(Raise("RatingScaleInputError", "create_custom_class",
                  <<Line("must include both", <<"pd", "lgd">>)>>), NoClass)
        ELSE Returns([base |-> cls, config |-> config])

\* a number as a ratio: a float of the model counts hundredths
Ratio(v) == [n |-> v.n, per |-> IF v.ty = "float" THEN 100 ELSE 1]
NoRatio == [n |-> 0, per |-> 0]
\* x * y
Mul(x, y) == [n |-> x.n * y.n, per |-> x.per * y.per]

\* _ImmutableMapping.__getitem__: self._data[key]
Mapping_getitem(obj, key) ==
    IF key \in DOMAIN obj.data THEN Returns(Ratio(obj.data[key]))
    ELSE Throws(Raise("KeyError", "__getitem__", <<KeyValue(key)>>), NoRatio)

\* PDLGDRatingSystem.get_pd_rating_value
get_pd_rating_value(self, rating_grade) ==
    Mapping_getitem(self.attrs["pd_rating_scale"], rating_grade)
\* a lookup of the LGD grade in the PD scale
Pd_for_lgd_rating_value(self, rating_grade) ==
    Mapping_getitem(self.attrs["pd_rating_scale"], rating_grade)
\* PDLGDRatingSystem.get_lgd_rating_value
get_lgd_rating_value(self, rating_grade) ==
    Mapping_getitem(self.attrs["lgd_rating_scale"], rating_grade)

\* PDLGDRatingSystem.get_expected_loss(pd_rating, lgd_rating, ead=1.0); ead is
\* Unset when the caller leaves it out
get_expected_loss(self, pd_rating, lgd_rating, ead) ==
    LET pd_value == get_pd_rating_value(self, pd_rating)
        lgd_value == get_lgd_rating_value(self, lgd_rating)
        exposure == IF ead = Unset THEN PyFloat(100) ELSE ead
    IN  IF Raised(pd_value.exc) THEN pd_value
        ELSE IF Raised(lgd_value.exc) THEN lgd_value
        ELSE Returns(Mul(Mul(pd_value.obj, lgd_value.obj), Ratio(exposure)))

-----------------------------------------------------------------------------
(* Export and reconstruction *)

\* BaseRatingSystem.get_config
get_config(cls) == IF ConfigTruthy(ConfigOf(cls)) THEN ConfigOf(cls) ELSE EmptyConfig

\* _ImmutableMapping.to_dict of a container held by a rating system
Mapping_to_dict(obj) == obj.data

\* OneDimensionalRatingSystem.to_dict and PDLGDRatingSystem.to_dict
to_dict(self) ==
    [rating_system_type |-> self.cls,
     attrs |-> [a \in DOMAIN self.attrs |-> Mapping_to_dict(self.attrs[a])],
     config |-> get_config(self.cls)]
NoExport == [rating_system_type |-> "none", attrs |-> EmptyDict, config |-> EmptyConfig]

\* data.get(key, {}) of an exported dict, as a constructor argument
GetDict(data, key) ==
    IF key \in DOMAIN data.attrs THEN Arg("dict", data.attrs[key]) ELSE Arg("dict", EmptyDict)

\* OneDimensionalRatingSystem.from_dict and PDLGDRatingSystem.from_dict
from_dict(id, cls, data) ==
    IF ShapeOf(cls) = "OneDimensionalRatingSystem"
    THEN OneDimensional_init(id, cls, GetDict(data, "rating_scale"), GetDict(data, "metadata"))
    ELSE PDLGD_init(id, cls, GetDict(data, "pd_rating_scale"),
                    GetDict(data, "lgd_rating_scale"), GetDict(data, "metadata"))

\* x == y of two rating systems: no class of the hierarchy defines __eq__,
\* so object.__eq__ compares identities
System_eq(x, y) == x.id = y.id

-----------------------------------------------------------------------------
(* The inputs a caller draws from *)

SysGrades == {"1", "A", "B"}
DimGrades == {"1", "A"}
MetaFields == {"institution", "portfolio"}
CustomNames == {"MySystem"}

\* the value a scale gives a grade, in hundredths
GradeValue(g) == CASE g = "1" -> 1 [] g = "2" -> 2 [] g = "A" -> 10 [] OTHER -> 20

ScaleData(S) == [g \in S |-> PyFloat(GradeValue(g))]
MetaData(M) == [k \in M |-> PyStr(1)]

\* lists of distinct grades of at most MaxReq entries, and one with a repeat
GradeLists(G) ==
    {InOrder(S) : S \in {T \in SUBSET G : Cardinality(T) <= MaxReq}} \cup {<<"A", "A">>}
FieldLists == {<<>>, <<"institution">>, <<"institution", "portfolio">>}

Optional(lists) == {Absent} \cup {Present(l) : l \in lists}

Configs1D ==
    {Config(rg, rm, NoDimensions) :
        rg \in Optional(GradeLists(SysGrades)), rm \in Optional(FieldLists)}
DimGradeLists == {l \in GradeLists(DimGrades) : l \notin {<<"1">>, <<"A", "A">>}}
DimensionDicts ==
    {NoDimensions} \cup
    {Dimensions(pd, lgd) : pd \in Optional(DimGradeLists), lgd \in Optional(DimGradeLists)}
Configs2D ==
    {Config(Absent, rm, dims) :
        rm \in {Absent, Present(<<"institution">>)}, dims \in DimensionDicts}

\* what a caller passes for a scale: None, an object of another type, a raw
\* mapping, or a container built earlier
ScaleArgs(G) ==
    {NoneArg, OtherArg} \cup
    {Arg("dict", ScaleData(S)) : S \in {{}, {"A"}}} \cup
    {Arg("ClientScale", ScaleData(S)) : S \in SUBSET G}
MetadataArgs ==
    {NoneArg, OtherArg} \cup
    {Arg("dict", MetaData(M)) : M \in {{}, {"institution"}}} \cup
    {Arg("ClientMetadata", MetaData(M)) : M \in SUBSET MetaFields}
\* the metadata arguments of the two-dimensional calls
MetadataArgs2D ==
    {NoneArg, Arg("dict", MetaData({"institution"}))} \cup
    {Arg("ClientMetadata", MetaData(M)) : M \in {{}, {"institution"}}}

NoArg == Arg("unused", EmptyDict)
Call(cls, rating_scale, pd_rating_scale, lgd_rating_scale, metadata) ==
    [cls |-> cls, rating_scale |-> rating_scale, pd_rating_scale |-> pd_rating_scale,
     lgd_rating_scale |-> lgd_rating_scale, metadata |-> metadata]
NoCall == Call("none", NoArg, NoArg, NoArg, NoArg)

\* the classes that exist: the two base shapes and the custom classes
ClassesOf(shape) == {shape} \cup {n \in DOMAIN classes : classes[n].base = shape}

-----------------------------------------------------------------------------
(* Containers as objects.  A dict is an object with an identity: store gives *)
(* the entries of the dict at each place, and two names that hold the same  *)
(* place are one object.                                                     *)

\* the caller's mapping, the dict a container made for itself, the dict a
\* projection returned and the dict of the container an add or a subset made
Places == {"input", "data", "proj", "new"}

\* a reference to the caller's mapping, passed as a value
InputRef == [ty |-> "dict", n |-> 0]

\* a container object: self._data is the dict at place ref
Handle(cls, ref, frozen, fields) ==
    [cls |-> cls, ref |-> ref, frozen |-> frozen, fields |-> fields]
NoHandle == Handle("none", "data", Unset, EmptyDict)

\* self._data = dict(data) if data else {}: on either branch _data is bound
\* to a dict made here, whose values are the objects the argument holds
init_data_ref(arg_ref) == "data"

\* object.__setattr__(self, name, value)
object_setattr(h, name, value) ==
    CASE name = "_data" -> [h EXCEPT !.ref = "input"]
      [] name = "_frozen" -> [h EXCEPT !.frozen = value]
      [] OTHER -> [h EXCEPT !.fields = (name :> value) @@ h.fields]

\* an assignment that never looks at _frozen
Unfrozen_setattr(h, name, value) == Returns(object_setattr(h, name, value))
\* _ImmutableMapping.__setattr__: once the attribute _frozen exists every
\* assignment raises
ImmutableMapping_setattr(h, name, value) ==
    IF h.frozen = Unset
    THEN Returns(object_setattr(h, name, value))
    ELSE [exc |-> Raise("AttributeError", "_ImmutableMapping.__setattr__",
                        <<Line("objects are immutable", <<h.cls>>)>>),
          obj |-> h]

\* keys(): tuple(self._data.keys())
Mapping_keys(data) == InOrder(DOMAIN data)
\* values(): tuple(self._data.values())
Mapping_values(data) == [i \in 1..Len(InOrder(DOMAIN data)) |-> data[InOrder(DOMAIN data)[i]]]

\* the dict itself, without a copy
SameDict(ref) == ref
\* to_dict(): return dict(self._data), a dict made here
to_dict_ref(ref) == "proj"
\* RatingScale.rating_scale: return dict(self._data)
rating_scale_ref(ref) == "proj"
\* Metadata.metadata: return dict(self._data)
metadata_ref(ref) == "proj"

\* what the caller holds after a projection: for a dict its place; for
\* keys() and values() the tuple; for items() the list of pairs, as the
\* sequence of their keys beside the sequence of their values
Projection(kind, place, keys, values) ==
    [kind |-> kind, place |-> place, keys |-> keys, values |-> values]
NoProjection == Projection("none", "none", <<>>, <<>>)
DictKinds == {"to_dict", "rating_scale", "metadata"}
TupleKinds == {"keys", "values"}

Op(op, arg) == [op |-> op, arg |-> arg]
NoOp == Op("none", "")

\* the argument of a construction, an add or a subset: None, a mapping with
\* its entries, or a single key, a list or a tuple of keys with its items
Request(kind, data, items) == [kind |-> kind, data |-> data, items |-> items]
NoRequest == Request("none", EmptyDict, <<>>)

\* the content of the list object a ListRef points to
Deep(v) == IF v = ListRef THEN [ty |-> "list", n |-> cell] ELSE v
\* what the container shows: its keys and, under each key, the value with
\* the content of a mutable value object
Content(h) == [k \in DOMAIN store[h.ref] |-> Deep(store[h.ref][k])]

-----------------------------------------------------------------------------
(* Configuration dicts as objects.  create_custom_class and get_config copy  *)
(* a configuration with dict.copy(): the copy is a new dict that holds the   *)
(* same value objects, which are the lists and the dict of the grade         *)
(* dimensions with its lists.  held is the dict the caller holds, and        *)
(* held.shared names the keys whose value object is also the value of that   *)
(* key in the _CONFIG of class held.cls.                                     *)

ConfigKeys == {"required_grades", "required_metadata", "required_grade_dimensions"}
DimensionKeys == {"pd", "lgd"}

\* dict.copy(): the keys whose value object the copy shares with its source
dict_copy(config) == {k \in ConfigKeys : config[k].present}

\* an edit the caller makes: config[key] = value, or an append to or a pop
\* from the list under the key
ConfigEdit(kind, key) == [kind |-> kind, key |-> key]
ConfigEdits ==
    {ConfigEdit("replace", k) : k \in ConfigKeys} \cup
    {ConfigEdit(kind, k) : kind \in {"append", "pop"},
                     k \in {"required_grades", "required_metadata"} \cup DimensionKeys}

\* the top-level key whose value object an in-place edit changes
OwnerKey(e) == IF e.key \in DimensionKeys THEN "required_grade_dimensions" ELSE e.key

\* the list under a key of the edit
ListAt(config, key) ==
    IF key \in DimensionKeys THEN config.required_grade_dimensions[key] ELSE config[key]

\* the edit runs without an error: the list is there, and a pop finds an item
Applies(config, e) ==
    \/ e.kind = "replace"
    \/ /\ config[OwnerKey(e)].present
       /\ ListAt(config, e.key).present
       /\ e.kind = "pop" => ListAt(config, e.key).list # <<>>

NewItem(key) == IF key = "required_metadata" THEN "portfolio" ELSE "B"
NewValue(key) ==
    IF key = "required_grade_dimensions"
    THEN Dimensions(Present(<<"B">>), Present(<<"B">>))
    ELSE Present(<<NewItem(key)>>)

\* list.append(item) and list.pop()
EditList(opt, e) ==
    Present(IF e.kind = "append" THEN Append(opt.list, NewItem(e.key))
            ELSE SubSeq(opt.list, 1, Len(opt.list) - 1))

\* a dict whose list object the edit changed in place
InPlace(config, e) ==
    IF e.key \in DimensionKeys
    THEN [config EXCEPT !.required_grade_dimensions =
                            [@ EXCEPT ![e.key] = EditList(@, e)]]
    ELSE [config EXCEPT ![e.key] = EditList(@, e)]

\* config[key] = value
SetItem(config, e) == [config EXCEPT ![e.key] = NewValue(e.key)]

\* the dict the caller holds: where it came from (passed to create_custom_class
\* of class on, or returned by get_config or to_dict of class on), the class
\* whose _CONFIG shares value objects with it, and the number of edits the
\* caller has made to the dicts it held
Held(from, on, cls, config, shared, edits) ==
    [from |-> from, on |-> on, cls |-> cls, config |-> config, shared |-> shared,
     edits |-> edits]
NoHeld == Held("none", "none", "none", EmptyConfig, {}, 0)

\* the callers that run at the same time
Threads == {1, 2}
\* a call in progress: the operation, how far it has run, the class it was
\* made on, its arguments, the local copy of the configuration and the
\* exception it raised
Thread(op, pc, cls, config, k) ==
    [op |-> op, pc |-> pc, cls |-> cls, config |-> config, k |-> k,
     local |-> EmptyConfig, exc |-> NoExc]
Idle == Thread("none", "idle", "none", EmptyConfig, NoCall)
NoProcs == [calls |-> 0, of |-> [p \in Threads |-> Idle]]
\* a get_expected_loss call: its arguments and the value it returned
Loss(pd_rating, lgd_rating, ead, value) ==
    [pd_rating |-> pd_rating, lgd_rating |-> lgd_rating, ead |-> ead, value |-> value]
NoLoss == Loss("none", "none", Unset, NoRatio)

-----------------------------------------------------------------------------
(* The rating systems as a state machine *)

Init ==
    /\ classes = [n \in BaseShapes |-> BaseClass]
    /\ call = NoCall
    /\ sys = NoInstance
    /\ exc = NoExc
    /\ exported = NoExport
    /\ restored = NoInstance
    /\ rebinds = 0
    /\ store = [p \in Places |-> EmptyDict]
    /\ cell = 0
    /\ c = NoHandle
    /\ proj = NoProjection
    /\ mexc = NoExc
    /\ mop = NoOp
    /\ derived = NoHandle
    /\ req = NoRequest
    /\ held = NoHeld
    /\ procs = NoProcs
    /\ loss = NoLoss

\* Shape.create_custom_class(name, config)
CreateCustomClass ==
    /\ call = NoCall
    /\ \E name \in CustomNames \ DOMAIN classes, shape \in BaseShapes :
       \E config \in IF shape = "OneDimensionalRatingSystem" THEN Configs1D ELSE Configs2D :
        LET r == IF shape = "OneDimensionalRatingSystem"
                 THEN OneDimensional_create_custom_class(shape, config)
                 ELSE PDLGD_create_custom_class(shape, config)
        IN  /\ exc' = r.exc
            /\ classes' = IF Raised(r.exc) THEN classes ELSE (name :> r.obj) @@ classes
    /\ UNCHANGED <<call, sys, exported, restored, rebinds>>
    /\ UNCHANGED mapVars
    /\ UNCHANGED callerVars

\* T(rating_scale, metadata) of a one-dimensional class T
ConstructOneDimensional ==
    /\ call = NoCall
    /\ \E cls \in ClassesOf("OneDimensionalRatingSystem") :
       \E rating_scale \in ScaleArgs(SysGrades), metadata \in MetadataArgs :
        LET r == OneDimensional_init("sys", cls, rating_scale, metadata)
        IN  /\ call' = Call(cls, rating_scale, NoArg, NoArg, metadata)
            /\ sys' = r.obj
            /\ exc' = r.exc
    /\ UNCHANGED <<classes, exported, restored, rebinds>>
    /\ UNCHANGED mapVars
    /\ UNCHANGED callerVars

\* T(pd_rating_scale, lgd_rating_scale, metadata) of a PD/LGD class T
ConstructPDLGD ==
    /\ call = NoCall
    /\ \E cls \in ClassesOf("PDLGDRatingSystem") :
       \E pd_rating_scale \in ScaleArgs(DimGrades), lgd_rating_scale \in ScaleArgs(DimGrades),
          metadata \in MetadataArgs2D :
        LET r == PDLGD_init("sys", cls, pd_rating_scale, lgd_rating_scale, metadata)
        IN  /\ call' = Call(cls, NoArg, pd_rating_scale, lgd_rating_scale, metadata)
            /\ sys' = r.obj
            /\ exc' = r.exc
    /\ UNCHANGED <<classes, exported, restored, rebinds>>
    /\ UNCHANGED mapVars
    /\ UNCHANGED callerVars

\* data = sys.to_dict()
ToDict ==
    /\ sys # NoInstance
    /\ exported' = to_dict(sys)
    /\ exc' = NoExc
    /\ UNCHANGED <<classes, call, sys, restored, rebinds>>
    /\ UNCHANGED mapVars
    /\ UNCHANGED callerVars

\* T.from_dict(data) with the class T of sys
FromDict ==
    /\ sys # NoInstance
    /\ exported # NoExport
    /\ LET r == from_dict("restored", sys.cls, exported)
       IN  /\ restored' = r.obj
           /\ exc' = r.exc
    /\ UNCHANGED <<classes, call, sys, exported, rebinds>>
    /\ UNCHANGED mapVars
    /\ UNCHANGED callerVars

\* sys.<attribute> = <another container>: the classes define neither
\* __setattr__ nor __slots__ nor properties for these names, so the
\* assignment binds the attribute
SetAttribute ==
    /\ sys # NoInstance
    /\ rebinds < MaxRebind
    /\ rebinds' = rebinds + 1
    /\ \E a \in DOMAIN sys.attrs :
       \E arg \in IF a = "metadata"
                  THEN {x \in MetadataArgs2D : IsMetadata(x)}
                  ELSE {x \in ScaleArgs({"A"}) : IsScale(x)} :
            sys' = [sys EXCEPT !.attrs[a] = InstanceOf(arg)]
    /\ exc' = NoExc
    /\ UNCHANGED <<classes, call, exported, restored>>
    /\ UNCHANGED mapVars
    /\ UNCHANGED callerVars

Next ==
    \/ CreateCustomClass
    \/ ConstructOneDimensional
    \/ ConstructPDLGD
    \/ ToDict
    \/ FromDict
    \/ SetAttribute

Spec == Init /\ [][Next]_vars

-----------------------------------------------------------------------------
(* The containers as a state machine *)

\* the mappings a caller builds: grades to floats, field names to a string
\* or to the list object
MapValue(k) ==
    CASE k \in DimGrades -> PyFloat(GradeValue(k))
      [] k = "portfolio" -> ListRef
      [] OTHER -> PyStr(1)
\* the value a caller writes over an entry
OtherValue(k) == IF k \in DimGrades THEN PyFloat(0) ELSE PyStr(2)
MapInputs(cls) ==
    {[k \in S |-> MapValue(k)] : S \in SUBSET (IF cls \in ScaleClasses THEN DimGrades ELSE MetaFields)}
MapArgs(cls) == {NoneArg} \cup {Arg("dict", m) : m \in MapInputs(cls)}

\* the keys a caller of this container writes into a dict
EditKeys == IF c.cls \in ScaleClasses THEN DimGrades ELSE MetaFields
\* d[k] = v and del d[k]
Edits(d) ==
    {[op |-> "set", k |-> k] : k \in EditKeys} \cup {[op |-> "del", k |-> k] : k \in DOMAIN d}
Edit(d, e) ==
    IF e.op = "set"
    THEN [k \in DOMAIN d \cup {e.k} |-> IF k = e.k THEN OtherValue(k) ELSE d[k]]
    ELSE [k \in DOMAIN d \ {e.k} |-> d[k]]

AttrNames == {"new_attr", "_data", "_frozen"}
AttrValue(name) ==
    CASE name = "_data" -> InputRef
      [] name = "_frozen" -> PyFalse
      [] OTHER -> PyStr(1)

\* c = cls(data), with data the caller's mapping or None
MapConstruct ==
    /\ c = NoHandle
    /\ \E cls \in ScaleClasses \cup MetadataClasses :
       \E arg \in MapArgs(cls) :
        LET r == ImmutableMapping_init(cls, arg)
            ref == init_data_ref("input")
        IN  /\ mexc' = r.exc
            /\ mop' = Op("construct", cls)
            /\ c' = IF Raised(r.exc) THEN NoHandle
                    ELSE Handle(cls, ref, r.obj.frozen, r.obj.fields)
            /\ store' = [p \in Places |->
                            CASE p = "input" -> arg.data
                              [] p = ref /\ ~Raised(r.exc) -> r.obj.data
                              [] OTHER -> store[p]]
    /\ UNCHANGED <<cell, proj>>
    /\ UNCHANGED sysVars
    /\ UNCHANGED newVars

\* c.<name> = <value>
MapSetAttr ==
    /\ c # NoHandle
    /\ \E name \in AttrNames :
        LET r == ImmutableMapping_setattr(c, name, AttrValue(name))
        IN  /\ c' = r.obj
            /\ mexc' = r.exc
            /\ mop' = Op("setattr", name)
    /\ UNCHANGED <<store, cell, proj>>
    /\ UNCHANGED sysVars
    /\ UNCHANGED newVars

\* p = c.to_dict(), p = c.rating_scale, p = c.metadata
MapToDict ==
    /\ c # NoHandle
    /\ \E kind \in {"to_dict"} \cup
                  (IF c.cls \in ScaleClasses THEN {"rating_scale"} ELSE {"metadata"}) :
        LET place == CASE kind = "to_dict" -> to_dict_ref(c.ref)
                       [] kind = "rating_scale" -> rating_scale_ref(c.ref)
                       [] OTHER -> metadata_ref(c.ref)
        IN  /\ proj' = Projection(kind, place, <<>>, <<>>)
            /\ store' = [store EXCEPT ![place] = store[c.ref]]
            /\ mop' = Op("project", kind)
    /\ mexc' = NoExc
    /\ UNCHANGED <<cell, c>>
    /\ UNCHANGED sysVars
    /\ UNCHANGED newVars

\* p = c.keys(), p = c.values(), p = c.items()
MapSequence ==
    /\ c # NoHandle
    /\ \E kind \in {"keys", "values", "items"} :
        /\ proj' = Projection(kind, "none",
                        IF kind = "values" THEN <<>> ELSE Mapping_keys(store[c.ref]),
                        IF kind = "keys" THEN <<>> ELSE Mapping_values(store[c.ref]))
        /\ mop' = Op("project", kind)
    /\ mexc' = NoExc
    /\ UNCHANGED <<store, cell, c>>
    /\ UNCHANGED sysVars
    /\ UNCHANGED newVars

\* the caller writes to the dict a projection returned: p[k] = v, del p[k]
MutateDict ==
    /\ proj.kind \in DictKinds
    /\ \E e \in Edits(store[proj.place]) :
        /\ store' = [store EXCEPT ![proj.place] = Edit(store[proj.place], e)]
        /\ mop' = Op("mutate " \o e.op, proj.kind)
    /\ mexc' = NoExc
    /\ UNCHANGED <<cell, c, proj>>
    /\ UNCHANGED sysVars
    /\ UNCHANGED newVars

\* the caller writes to the sequence a projection returned: a tuple raises
\* TypeError; on the list of items(), p[0] = (k, v) and p.pop()
MutateSequence ==
    /\ proj.kind \in TupleKinds \cup {"items"}
    /\ Len(proj.keys) + Len(proj.values) > 0
    /\ \E op \in {"set", "pop"} :
        /\ mop' = Op("mutate " \o op, proj.kind)
        /\ IF proj.kind \in TupleKinds
           THEN /\ mexc' = Raise("TypeError", "tuple", <<>>)
                /\ proj' = proj
           ELSE /\ mexc' = NoExc
                /\ proj' = IF op = "pop"
                           THEN [proj EXCEPT !.keys = SubSeq(@, 1, Len(@) - 1),
                                             !.values = SubSeq(@, 1, Len(@) - 1)]
                           ELSE [proj EXCEPT !.values[1] = OtherValue(proj.keys[1])]
    /\ UNCHANGED <<store, cell, c>>
    /\ UNCHANGED sysVars
    /\ UNCHANGED newVars

\* after construction the caller writes to the mapping it passed:
\* data[k] = v, del data[k]
MutateInput ==
    /\ c # NoHandle
    /\ \E e \in Edits(store["input"]) :
        /\ store' = [store EXCEPT !["input"] = Edit(store["input"], e)]
        /\ mop' = Op("input " \o e.op, e.k)
    /\ mexc' = NoExc
    /\ UNCHANGED <<cell, c, proj>>
    /\ UNCHANGED sysVars
    /\ UNCHANGED newVars

\* after construction the caller appends to the list object it stored in
\* the mapping it passed
MutateCell ==
    /\ c # NoHandle
    /\ \E k \in DOMAIN store["input"] : store["input"][k] = ListRef
    /\ cell < MaxCell
    /\ cell' = cell + 1
    /\ mop' = Op("input append", "portfolio")
    /\ mexc' = NoExc
    /\ UNCHANGED <<store, c, proj>>
    /\ UNCHANGED sysVars
    /\ UNCHANGED newVars

MapNext ==
    \/ MapConstruct
    \/ MapSetAttr
    \/ MapToDict
    \/ MapSequence
    \/ MutateDict
    \/ MutateSequence
    \/ MutateInput
    \/ MutateCell

MapSpec == Init /\ [][MapNext]_vars

-----------------------------------------------------------------------------
(* Containers made from containers: validation, add and subset *)

\* the keys and values of the mappings a caller passes: for a scale grades
\* of every type with a float, an int, a str or None; for a metadata
\* container field names, among them an int, a string that is no
\* identifier, a reserved word and the name _frozen
ScaleKeys == {"1", "A", "1.5", "None", "(1, 2)"}
MetaKeys == {"institution", "portfolio", "my-key", "class", "1", "_frozen"}

Mappings(K, V) == UNION {[S -> V] : S \in {T \in SUBSET K : Cardinality(T) <= MaxKeys}}

BuildInputs(cls) ==
    IF cls \in ScaleClasses
    THEN Mappings(ScaleKeys, {PyFloat(1), PyInt(1), PyStr(1), PyNone})
    ELSE Mappings(MetaKeys, {PyStr(1)})
\* the mappings a caller adds, with values other than the container's
Extras(cls) ==
    IF cls \in ScaleClasses
    THEN Mappings(ScaleKeys, {PyFloat(2), PyInt(1)})
    ELSE Mappings(MetaKeys, {PyStr(2)})

\* the handle of the container an operation returned, its dict at place ref
Made(r, ref) ==
    IF Raised(r.exc) THEN NoHandle ELSE Handle(r.obj.cls, ref, r.obj.frozen, r.obj.fields)

\* c = cls(data) and c = cls.from_dict(data), with data a mapping or None
Build ==
    /\ c = NoHandle /\ mop = NoOp
    /\ \E cls \in ScaleClasses \cup MetadataClasses :
       \E arg \in {NoneArg} \cup {Arg("dict", m) : m \in BuildInputs(cls)} :
       \E how \in {"construct", "from_dict"} :
        LET r == IF how = "construct" THEN ImmutableMapping_init(cls, arg)
                 ELSE Mapping_from_dict(cls, arg)
        IN  /\ mexc' = r.exc
            /\ mop' = Op(how, cls)
            /\ req' = Request(arg.cls, arg.data, <<>>)
            /\ c' = Made(r, init_data_ref("input"))
            /\ store' = [p \in Places |->
                            CASE p = "input" -> arg.data
                              [] p = "data" /\ ~Raised(r.exc) -> r.obj.data
                              [] OTHER -> store[p]]
    /\ derived' = NoHandle
    /\ UNCHANGED <<cell, proj>>
    /\ UNCHANGED sysVars

\* d = c.add_rating_grades(extra), d = c.add_metadata(extra)
AddItems ==
    /\ c # NoHandle
    /\ \E extra \in Extras(c.cls) :
        LET r == add_items(c.cls, store[c.ref], extra)
        IN  /\ mexc' = r.exc
            /\ mop' = Op("add", c.cls)
            /\ req' = Request("dict", extra, <<>>)
            /\ derived' = Made(r, "new")
            /\ store' = [store EXCEPT !["new"] = r.obj.data]
    /\ UNCHANGED <<cell, c, proj>>
    /\ UNCHANGED sysVars

\* the keys a caller asks for: keys a container may hold and one it never holds
ReqKeys(cls) ==
    IF cls \in ScaleClasses THEN {"1", "A", "B"} ELSE {"institution", "portfolio", "B"}
\* a single key, a list of keys, and the tuple the container's own
\* rating_grades() / metadata_items() returned
Requests(h) ==
    {Request("key", EmptyDict, <<k>>) : k \in ReqKeys(h.cls)}
    \cup {Request("list", EmptyDict, l) :
            l \in UNION {[1..n -> ReqKeys(h.cls)] : n \in 0..MaxKeys}}
    \cup {Request("tuple", EmptyDict, Mapping_keys(store[h.ref]))}

\* d = c.subset_grades(request), d = c.subset_metadata(request)
Subset ==
    /\ c # NoHandle
    /\ \E request \in Requests(c) :
        LET r == IF c.cls \in ScaleClasses
                 THEN subset_grades(c.cls, store[c.ref], request)
                 ELSE subset_metadata(c.cls, store[c.ref], request)
        IN  /\ mexc' = r.exc
            /\ mop' = Op("subset", c.cls)
            /\ req' = request
            /\ derived' = Made(r, "new")
            /\ store' = [store EXCEPT !["new"] = r.obj.data]
    /\ UNCHANGED <<cell, c, proj>>
    /\ UNCHANGED sysVars

\* the mappings of a second container: entries equal to and other than
\* those of the first
OtherInputs(cls) ==
    IF IsSubclass(cls, "RatingScale")
    THEN Mappings({"1", "A"}, {PyFloat(1), PyFloat(2)})
    ELSE Mappings({"institution", "portfolio"}, {PyStr(1), PyStr(2)})

\* d = cls(data): a second container, of any class that has instances
BuildOther ==
    /\ c # NoHandle
    /\ \E cls \in {"ClientScale", "ClientSubScale", "ClientMetadata"} :
       \E m \in OtherInputs(cls) :
        LET r == ImmutableMapping_init(cls, Arg("dict", m))
        IN  /\ mexc' = r.exc
            /\ mop' = Op("other", cls)
            /\ req' = Request("dict", m, <<>>)
            /\ derived' = Made(r, "new")
            /\ store' = [store EXCEPT !["new"] = r.obj.data]
    /\ UNCHANGED <<cell, c, proj>>
    /\ UNCHANGED sysVars

\* d = type(c).from_dict(c.to_dict())
RoundTrip ==
    /\ c # NoHandle
    /\ LET exported_dict == Mapping_to_dict(Container(c.cls, store[c.ref], c.frozen, c.fields))
           r == Mapping_from_dict(c.cls, Arg("dict", exported_dict))
       IN  /\ mexc' = r.exc
           /\ mop' = Op("round trip", c.cls)
           /\ req' = Request("dict", exported_dict, <<>>)
           /\ derived' = Made(r, "new")
           /\ store' = [store EXCEPT !["new"] = r.obj.data]
    /\ UNCHANGED <<cell, c, proj>>
    /\ UNCHANGED sysVars

DeriveNext ==
    \/ Build
    \/ AddItems
    \/ Subset
    \/ BuildOther
    \/ RoundTrip

DeriveSpec == Init /\ [][DeriveNext]_vars

-----------------------------------------------------------------------------
(* The class factory and the configuration dicts a caller holds *)

FactoryNames == {"MySystem", "Other"}

\* the configuration dicts a caller passes to either shape
FactoryConfigs ==
    {Config(rg, rm, NoDimensions) :
        rg \in {Absent, Present(<<"A">>)},
        rm \in {Absent, Present(<<"institution">>)}} \cup
    {Config(Absent, Absent, dims) :
        dims \in {Dimensions(Absent, Present(<<"A">>)),
                  Dimensions(Present(<<"A">>), Absent),
                  Dimensions(Present(<<"A">>), Present(<<"A">>))}}

\* constructor arguments that pass the input stages: containers
Probes(shape) ==
    IF shape = "OneDimensionalRatingSystem"
    THEN {Call("probe", Arg("ClientScale", ScaleData(S)), NoArg, NoArg,
               Arg("ClientMetadata", MetaData(M))) :
            S \in {{"A"}, {"A", "B"}}, M \in {{}, {"institution"}}}
    ELSE {Call("probe", NoArg, Arg("ClientScale", ScaleData(S)),
               Arg("ClientScale", ScaleData({"A"})), Arg("ClientMetadata", MetaData({}))) :
            S \in {{"A"}, {"A", "B"}}}

\* cls(...) with the arguments of a call
Construct(id, cls, k) ==
    IF ShapeOf(cls) = "OneDimensionalRatingSystem"
    THEN OneDimensional_init(id, cls, k.rating_scale, k.metadata)
    ELSE PDLGD_init(id, cls, k.pd_rating_scale, k.lgd_rating_scale, k.metadata)

\* cls.create_custom_class(name, config) of a base shape or a custom class
create_custom_class(cls, config) ==
    IF ShapeOf(cls) = "OneDimensionalRatingSystem"
    THEN OneDimensional_create_custom_class(cls, config)
    ELSE PDLGD_create_custom_class(cls, config)

\* new = cls.create_custom_class(name, config), with config a dict the caller
\* made and keeps
FactoryCreate ==
    /\ \E name \in FactoryNames \ DOMAIN classes, cls \in DOMAIN classes :
       \E config \in FactoryConfigs :
        LET r == create_custom_class(cls, config)
        IN  /\ exc' = r.exc
            /\ classes' = IF Raised(r.exc) THEN classes ELSE (name :> r.obj) @@ classes
            /\ held' = IF Raised(r.exc)
                       THEN Held("passed", cls, "none", config, {}, held.edits)
                       ELSE Held("passed", cls, name, config, dict_copy(config),
                                 held.edits)
    /\ UNCHANGED <<call, sys, exported, restored, rebinds, procs, loss>>
    /\ UNCHANGED mapVars

\* config = cls.get_config(), or config = cls(...).to_dict()["config"] with
\* arguments the class accepts
FactoryGetConfig ==
    /\ \E cls \in DOMAIN classes, from \in {"get_config", "to_dict"} :
       \E k \in Probes(ShapeOf(cls)) :
        LET r == Construct("sys", cls, k)
            config == IF from = "to_dict" THEN to_dict(r.obj).config ELSE get_config(cls)
        IN  /\ from = "to_dict" => ~Raised(r.exc)
            /\ held' = Held(from, cls, cls, config,
                            IF ConfigTruthy(ConfigOf(cls)) THEN dict_copy(ConfigOf(cls)) ELSE {},
                            held.edits)
    /\ exc' = NoExc
    /\ UNCHANGED <<classes, call, sys, exported, restored, rebinds, procs, loss>>
    /\ UNCHANGED mapVars

\* the caller edits the dict it holds
FactoryEdit ==
    /\ held.from # "none"
    /\ held.edits < MaxEdits
    /\ \E e \in ConfigEdits :
        /\ Applies(held.config, e)
        /\ IF e.kind = "replace"
           THEN /\ held' = [held EXCEPT !.config = SetItem(@, e), !.shared = @ \ {e.key},
                                        !.edits = @ + 1]
                /\ classes' = classes
           ELSE /\ held' = [held EXCEPT !.config = InPlace(@, e), !.edits = @ + 1]
                /\ classes' = IF OwnerKey(e) \in held.shared
                              THEN [classes EXCEPT ![held.cls].config = InPlace(@, e)]
                              ELSE classes
    /\ exc' = NoExc
    /\ UNCHANGED <<call, sys, exported, restored, rebinds, procs, loss>>
    /\ UNCHANGED mapVars

FactoryNext ==
    \/ FactoryCreate
    \/ FactoryGetConfig
    \/ FactoryEdit

FactorySpec == Init /\ [][FactoryNext]_vars

-----------------------------------------------------------------------------
(* Expected loss of a PD/LGD rating system *)

\* the grades a caller asks for and the exposures it passes
LossGrades == {"1", "A", "B"}
Exposures == {Unset, PyFloat(100), PyFloat(250), PyInt(2)}

\* sys.get_expected_loss(pd_rating, lgd_rating[, ead])
GetExpectedLoss ==
    /\ sys # NoInstance
    /\ \E pd_rating \in LossGrades, lgd_rating \in LossGrades, ead \in Exposures :
        LET r == get_expected_loss(sys, pd_rating, lgd_rating, ead)
        IN  /\ loss' = Loss(pd_rating, lgd_rating, ead, r.obj)
            /\ exc' = r.exc
    /\ UNCHANGED <<classes, call, sys, exported, restored, rebinds, held, procs>>
    /\ UNCHANGED mapVars

LossNext ==
    \/ ConstructPDLGD
    \/ GetExpectedLoss

LossSpec == Init /\ [][LossNext]_vars

-----------------------------------------------------------------------------
(* Concurrent callers.  A call of create_custom_class or of a constructor    *)
(* runs in the thread of its caller, and the interpreter may switch threads  *)
(* between any two of its statements.  A step of a call is a run of          *)
(* statements that read or write nothing another call can reach; the reads   *)
(* of cls._CONFIG and the creation of the class are steps of their own.      *)

\* the name each caller gives the class it creates
NameOf(p) == IF p = 1 THEN "MySystem" ELSE "Other"

ThreadConfigs ==
    {EmptyConfig,
     Config(Present(<<"A">>), Absent, NoDimensions),
     Config(Present(<<"A">>), Present(<<"institution">>), NoDimensions),
     Config(Absent, Absent, Dimensions(Present(<<"A">>), Present(<<"A">>)))}

\* the frame that holds the local variables of a call: its own
Shared_frame(p) == 1
Frame(p) == p

\* the processing of the scale arguments, in the order of the constructor
ScaleStage(shape, k) ==
    LET r1 == process_rating_scale_input(k.rating_scale, "")
        pd == process_rating_scale_input(k.pd_rating_scale, "pd")
        lgd == process_rating_scale_input(k.lgd_rating_scale, "lgd")
    IN  IF shape = "OneDimensionalRatingSystem" THEN r1.exc
        ELSE IF Raised(pd.exc) THEN pd.exc
        ELSE lgd.exc
\* the processing of the metadata argument
MetadataStage(k) == process_metadata_input(k.metadata).exc
\* the input stages of a constructor: they read the arguments only
InputStage(shape, k) ==
    IF Raised(ScaleStage(shape, k)) THEN ScaleStage(shape, k) ELSE MetadataStage(k)
\* self._validate_required_metadata(), with the _CONFIG the class holds now
RequiredStage(cls, k) ==
    validate_required_metadata(ConfigOf(cls), process_metadata_input(k.metadata).obj)
\* self._validate_required_grades() or self._validate_required_grade_dimensions(),
\* with the _CONFIG the class holds now
GradeStage(cls, k) ==
    IF ShapeOf(cls) = "OneDimensionalRatingSystem"
    THEN validate_required_grades(ConfigOf(cls),
                                  process_rating_scale_input(k.rating_scale, "").obj)
    ELSE validate_required_grade_dimensions(ConfigOf(cls),
             process_rating_scale_input(k.pd_rating_scale, "pd").obj,
             process_rating_scale_input(k.lgd_rating_scale, "lgd").obj)

\* p starts a call: cls.create_custom_class(NameOf(p), config), or cls(...) of
\* a class that exists
ThreadCall(p) ==
    /\ procs.of[p].pc = "idle"
    /\ procs.calls < MaxCalls
    /\ \E cls \in DOMAIN classes :
        \/ /\ NameOf(p) \notin DOMAIN classes
           /\ \E config \in ThreadConfigs :
                procs' = [calls |-> procs.calls + 1,
                          of |-> [procs.of EXCEPT ![p] =
                                    Thread("create", "called", cls, config, NoCall)]]
        \/ \E k \in Probes(ShapeOf(cls)) :
                procs' = [calls |-> procs.calls + 1,
                          of |-> [procs.of EXCEPT ![p] =
                                    Thread("construct", "called", cls, EmptyConfig, k)]]
    /\ UNCHANGED <<classes, call, sys, exc, exported, restored, rebinds, held, loss>>
    /\ UNCHANGED mapVars

\* create_custom_class up to class_attrs = {"_CONFIG": config.copy(), ...}: the
\* check of the configuration, and the copy kept in a local variable
ThreadCopy(p) ==
    /\ procs.of[p].op = "create" /\ procs.of[p].pc = "called"
    /\ LET t == procs.of[p]
           r == create_custom_class(t.cls, t.config)
       IN  procs' = [procs EXCEPT !.of =
               IF Raised(r.exc)
               THEN [@ EXCEPT ![p] = [t EXCEPT !.pc = "done", !.exc = r.exc]]
               ELSE [[@ EXCEPT ![p] = [t EXCEPT !.pc = "copied"]]
                        EXCEPT ![Frame(p)].local = t.config]]
    /\ UNCHANGED <<classes, call, sys, exc, exported, restored, rebinds, held, loss>>
    /\ UNCHANGED mapVars

\* new_class = type(name, (cls,), class_attrs); return new_class
ThreadType(p) ==
    /\ procs.of[p].op = "create" /\ procs.of[p].pc = "copied"
    /\ classes' = (NameOf(p) :> [base |-> procs.of[p].cls,
                                 config |-> procs.of[Frame(p)].local]) @@ classes
    /\ procs' = [procs EXCEPT !.of[p].pc = "done"]
    /\ UNCHANGED <<call, sys, exc, exported, restored, rebinds, held, loss>>
    /\ UNCHANGED mapVars

\* the constructor up to the processing of its arguments
ThreadInputs(p) ==
    /\ procs.of[p].op = "construct" /\ procs.of[p].pc = "called"
    /\ LET t == procs.of[p]
           e == InputStage(ShapeOf(t.cls), t.k)
       IN  procs' = [procs EXCEPT !.of[p] =
               [t EXCEPT !.pc = IF Raised(e) THEN "done" ELSE "inputs", !.exc = e]]
    /\ UNCHANGED <<classes, call, sys, exc, exported, restored, rebinds, held, loss>>
    /\ UNCHANGED mapVars

\* self._validate_required_metadata()
ThreadRequired(p) ==
    /\ procs.of[p].op = "construct" /\ procs.of[p].pc = "inputs"
    /\ LET t == procs.of[p]
           e == RequiredStage(t.cls, t.k)
       IN  procs' = [procs EXCEPT !.of[p] =
               [t EXCEPT !.pc = IF Raised(e) THEN "done" ELSE "required", !.exc = e]]
    /\ UNCHANGED <<classes, call, sys, exc, exported, restored, rebinds, held, loss>>
    /\ UNCHANGED mapVars

\* the validation of the grades, the last statement of the constructor
ThreadGrades(p) ==
    /\ procs.of[p].op = "construct" /\ procs.of[p].pc = "required"
    /\ LET t == procs.of[p]
           e == GradeStage(t.cls, t.k)
       IN  procs' = [procs EXCEPT !.of[p] = [t EXCEPT !.pc = "done", !.exc = e]]
    /\ UNCHANGED <<classes, call, sys, exc, exported, restored, rebinds, held, loss>>
    /\ UNCHANGED mapVars

\* the caller takes the result and is free for its next call
ThreadReturn(p) ==
    /\ procs.of[p].pc = "done"
    /\ procs' = [procs EXCEPT !.of[p] = Idle]
    /\ UNCHANGED <<classes, call, sys, exc, exported, restored, rebinds, held, loss>>
    /\ UNCHANGED mapVars

ThreadNext ==
    \E p \in Threads :
        \/ ThreadCall(p)
        \/ ThreadCopy(p)
        \/ ThreadType(p)
        \/ ThreadInputs(p)
        \/ ThreadRequired(p)
        \/ ThreadGrades(p)
        \/ ThreadReturn(p)

ThreadSpec == Init /\ [][ThreadNext]_vars

-----------------------------------------------------------------------------
(* Properties of the rating systems (Spec) *)

Custom(cls) == cls \in DOMAIN classes \ BaseShapes
Is1D(cls) == ShapeOf(cls) = "OneDimensionalRatingSystem"
Is2D(cls) == ShapeOf(cls) = "PDLGDRatingSystem"
\* sys is as its constructor returned it
Constructed == sys # NoInstance /\ rebinds = 0
GradesOf(scale) == DOMAIN scale.data
\* the message has a line with this label that lists exactly the grades of S
Lists(e, label, S) ==
    \E i \in DOMAIN e.lines : e.lines[i].label = label /\ SetOf(e.lines[i].items) = S
\* the metadata argument is a container that holds every required field
MetadataPasses(cls, metadata) ==
    /\ IsMetadata(metadata)
    /\ SetOf(GetList(ConfigOf(cls).required_metadata)) \subseteq DOMAIN metadata.data

\* C1: every successfully constructed instance of a one-dimensional class
\* whose configuration holds a required_grades list R, the empty list
\* included, owns a scale whose grade set is exactly set(R)
C1_ExactGrades ==
    (Constructed /\ Is1D(sys.cls) /\ ConfigOf(sys.cls).required_grades.present)
    => GradesOf(sys.attrs["rating_scale"]) = SetOf(ConfigOf(sys.cls).required_grades.list)

\* C2: every successfully constructed instance of a PD/LGD class made by
\* create_custom_class with {pd: Rpd, lgd: Rlgd}, either list possibly
\* empty, has pd grades set(Rpd) and lgd grades set(Rlgd); and a call whose
\* pd scale alone, or lgd scale alone, differs from its list fails
C2_ExactDimensions ==
    (call # NoCall /\ Custom(call.cls) /\ Is2D(call.cls)) =>
        LET dims == ConfigOf(call.cls).required_grade_dimensions
        IN  /\ Constructed =>
                /\ GradesOf(sys.attrs["pd_rating_scale"]) = SetOf(dims.pd.list)
                /\ GradesOf(sys.attrs["lgd_rating_scale"]) = SetOf(dims.lgd.list)
            /\ (\/ DOMAIN call.pd_rating_scale.data # SetOf(dims.pd.list)
                \/ DOMAIN call.lgd_rating_scale.data # SetOf(dims.lgd.list))
               => sys = NoInstance /\ Raised(exc)

\* a successful construction against two lists, one of them empty
C2_Witness ==
    /\ Constructed /\ Custom(sys.cls) /\ Is2D(sys.cls)
    /\ ConfigOf(sys.cls).required_grade_dimensions.pd.list = <<"1", "A">>
    /\ ConfigOf(sys.cls).required_grade_dimensions.lgd.list = <<>>
    /\ GradesOf(sys.attrs["pd_rating_scale"]) = {"1", "A"}
    /\ GradesOf(sys.attrs["lgd_rating_scale"]) = {}

\* C3: a one-dimensional class with required grades R, called with a scale
\* of int and str grades whose grade set S differs from set(R), fails with
\* RatingValidationError, and no other error, whose message lists every
\* grade of set(R) - S as missing, every grade of S - set(R) as extra, the
\* list R and the grades S
C3_MismatchReported ==
    LET R == GetList(ConfigOf(call.cls).required_grades)
        S == DOMAIN call.rating_scale.data
    IN  (/\ call # NoCall /\ Is1D(call.cls)
         /\ IsScale(call.rating_scale) /\ MetadataPasses(call.cls, call.metadata)
         /\ R # <<>> /\ S # SetOf(R))
        => /\ sys = NoInstance
           /\ exc.type = "RatingValidationError"
           /\ (SetOf(R) \ S # {} => Lists(exc, "missing required grades", SetOf(R) \ S))
           /\ (S \ SetOf(R) # {} => Lists(exc, "extra grades not allowed", S \ SetOf(R)))
           /\ Lists(exc, "required grades", SetOf(R))
           /\ Lists(exc, "actual grades", S)

\* C4: a PD/LGD construction in which the pd scale and the lgd scale both
\* differ from their required lists fails once, with one RatingValidationError
\* whose message lists the missing and the extra grades of both dimensions
C4_BothDimensionsReported ==
    LET dims == ConfigOf(call.cls).required_grade_dimensions
        Rpd == SetOf(dims.pd.list)
        Rlgd == SetOf(dims.lgd.list)
        Spd == DOMAIN call.pd_rating_scale.data
        Slgd == DOMAIN call.lgd_rating_scale.data
    IN  (/\ call # NoCall /\ Custom(call.cls) /\ Is2D(call.cls)
         /\ IsScale(call.pd_rating_scale) /\ IsScale(call.lgd_rating_scale)
         /\ MetadataPasses(call.cls, call.metadata)
         /\ Spd # Rpd /\ Slgd # Rlgd)
        => /\ sys = NoInstance
           /\ exc.type = "RatingValidationError"
           /\ (Rpd \ Spd # {} => Lists(exc, "PD missing required grades", Rpd \ Spd))
           /\ (Spd \ Rpd # {} => Lists(exc, "PD extra grades not allowed", Spd \ Rpd))
           /\ (Rlgd \ Slgd # {} => Lists(exc, "LGD missing required grades", Rlgd \ Slgd))
           /\ (Slgd \ Rlgd # {} => Lists(exc, "LGD extra grades not allowed", Slgd \ Rlgd))

\* the scale arguments of the call are containers, so the scale stage passes
ScalesPass ==
    IF Is1D(call.cls) THEN IsScale(call.rating_scale)
    ELSE IsScale(call.pd_rating_scale) /\ IsScale(call.lgd_rating_scale)

\* C5: for a class whose configuration lists required metadata fields M, a
\* constructed instance's metadata holds every field of M (more keys are
\* allowed); a call whose metadata lacks a field of M fails, with a
\* RatingValidationError that lists all missing fields, the list M and the
\* fields present
C5_RequiredMetadata ==
    (call # NoCall /\ ConfigOf(call.cls).required_metadata.present) =>
        LET M == ConfigOf(call.cls).required_metadata.list
            present == DOMAIN call.metadata.data
            missing == SelectSeq(M, LAMBDA field : field \notin present)
        IN  /\ Constructed => SetOf(M) \subseteq DOMAIN sys.attrs["metadata"].data
            /\ (ScalesPass /\ IsMetadata(call.metadata) /\ missing # <<>>)
               => /\ sys = NoInstance
                  /\ exc = Raise("RatingValidationError", "_validate_required_metadata",
                                 << Line("Missing required metadata fields", missing),
                                    Line("Required", M),
                                    Line("Available", InOrder(present)) >>)

\* a call that satisfies the scale stage and lacks one of two required
\* fields, with another field present
C5_Witness ==
    /\ call # NoCall /\ ScalesPass
    /\ ConfigOf(call.cls).required_metadata = Present(<<"institution", "portfolio">>)
    /\ IsMetadata(call.metadata) /\ DOMAIN call.metadata.data = {"institution"}
    /\ exc.type = "RatingValidationError" /\ exc.at = "_validate_required_metadata"

\* C6: for a constructed instance x of class T, T.from_dict(x.to_dict())
\* returns an instance that compares equal to x
C6_RoundTrip ==
    [][(FromDict /\ Constructed /\ exported = to_dict(sys))
       => (~Raised(exc') /\ restored' # NoInstance /\ System_eq(restored', sys))]_vars

\* C7: no operation on a constructed instance changes the scales or the
\* metadata it owns, an assignment to one of its attributes included
C7_Immutable ==
    [][sys # NoInstance => sys'.attrs = sys.attrs]_vars

-----------------------------------------------------------------------------
(* Properties of the containers (MapSpec) *)

C9_ProjectionsFresh ==
    [][/\ MapToDict => proj'.place # c.ref
       /\ (MutateDict \/ MutateSequence) => (c' = c /\ store'[c'.ref] = store[c.ref])]_vars

\* the caller wrote to the dict to_dict() returned and it now differs from
\* the container's
C9_Witness ==
    /\ c # NoHandle /\ proj.kind = "to_dict"
    /\ mop.op = "mutate set"
    /\ store[proj.place] # store[c.ref]

\* C10: after construction no change the caller makes to the mapping it
\* passed (a key added or removed, a value replaced, the mutable value
\* object stored in it mutated) shows through the container
C10_InputIsolated ==
    [][(c # NoHandle /\ (MutateInput \/ MutateCell)) => Content(c)' = Content(c)]_vars

-----------------------------------------------------------------------------
(* Properties of add and subset (DeriveSpec).  Every step of AddItems leaves  *)
(* mop.op = "add" and every step of Subset mop.op = "subset", and no other   *)
(* step does; the properties name the steps by that mark.                    *)

\* a mapping the documentation of the class accepts: for a scale int or str
\* grades with float values, for a metadata container strings that are
\* identifiers and no reserved word
ValidMapping(cls, m) ==
    IF cls \in ScaleClasses
    THEN \A k \in DOMAIN m : PyType(k) \in {"int", "str"} /\ m[k].ty = "float"
    ELSE \A k \in DOMAIN m : IsIdentifier(k) /\ k \notin KeywordKeys

C12_SubsetIdentity ==
    [][(mop'.op = "subset" /\ c.cls \in ScaleClasses /\ req'.kind = "tuple") =>
        /\ ~Raised(mexc')
        /\ derived' # NoHandle
        /\ store'[derived'.ref] = store[c.ref]]_vars

\* the requested keys the container does not hold, in request order
Missing(h, request) == SelectSeq(AsList(request), LAMBDA k : k \notin DOMAIN store[h.ref])
\* a request by a single key or by a list of keys
Plain(request) == request.kind \in {"key", "list"}

\* C13: subset_grades with a requested grade the scale does not hold raises
\* RatingScaleError and makes no scale; the error's field rating is the
\* first missing grade of the request, its field available_ratings holds
\* exactly the grades of the scale, and its text lists every missing grade
C13_MissingGrades ==
    [][(mop'.op = "subset" /\ c.cls \in ScaleClasses /\ Plain(req') /\ Missing(c, req') # <<>>) =>
        /\ mexc'.type = "RatingScaleError"
        /\ derived' = NoHandle
        /\ HasLine(mexc', Field("rating", KeyValue(Missing(c, req')[1])))
        /\ \E i \in DOMAIN mexc'.lines :
                /\ mexc'.lines[i].label = "available_ratings: list"
                /\ SetOf(mexc'.lines[i].items) = DOMAIN store[c.ref]
        /\ HasLine(mexc', Line("Rating grades not found", Missing(c, req')))]_vars

\* C14: subset_metadata with a requested item the container does not hold
\* raises MetadataError and makes no container; the error's field key is
\* the first missing item of the request, whether one item or several are
\* missing, and its text lists every missing item and every available key
C14_MissingItems ==
    [][(mop'.op = "subset" /\ c.cls \in MetadataClasses /\ Plain(req') /\ Missing(c, req') # <<>>) =>
        /\ mexc'.type = "MetadataError"
        /\ derived' = NoHandle
        /\ HasLine(mexc', Field("key", KeyValue(Missing(c, req')[1])))
        /\ HasLine(mexc', Line("Keys not found in metadata", Missing(c, req')))
        /\ HasLine(mexc', Line("Available keys", InOrder(DOMAIN store[c.ref])))]_vars

\* C15: subset_grades / subset_metadata with a single key or a list of keys
\* (empty or with repeats) the container holds returns a new instance of
\* the class of the container whose keys are the requested ones and whose
\* values are the container's; the container is unchanged; an empty list
\* gives an empty container
C15_SubsetOfPresent ==
    [][(mop'.op = "subset" /\ Plain(req') /\ Missing(c, req') = <<>>) =>
        /\ ~Raised(mexc')
        /\ derived' # NoHandle /\ derived'.cls = c.cls /\ derived'.ref # c.ref
        /\ DOMAIN store'[derived'.ref] = SetOf(req'.items)
        /\ \A k \in SetOf(req'.items) : store'[derived'.ref][k] = store[c.ref][k]
        /\ req'.items = <<>> => store'[derived'.ref] = EmptyDict
        /\ c' = c /\ store'[c'.ref] = store[c.ref]]_vars

\* a subset by a list that names one key twice, of a container with two keys
C15_Witness ==
    /\ mop.op = "subset" /\ derived # NoHandle
    /\ req.kind = "list" /\ Len(req.items) = 2 /\ req.items[1] = req.items[2]
    /\ DOMAIN store[derived.ref] = {req.items[1]}
    /\ Cardinality(DOMAIN store[c.ref]) = 2

\* the grades and the values of a mapping that RatingScale documents as errors
GradeErrors(m) == {g \in DOMAIN m : PyType(g) \notin {"int", "str"}}
ValueErrors(m) == {g \in DOMAIN m : m[g].ty # "float"}
\* the metadata keys that are no string, and the strings that are no identifier
KeyTypeErrors(m) == {k \in DOMAIN m : PyType(k) # "str"}
IdentifierErrors(m) == {k \in DOMAIN m : PyType(k) = "str" /\ ~IsIdentifier(k)}

\* C16: RatingScale(m) returns a scale exactly when every grade of m is an
\* int or a str and every value is a float; the scale then holds the entries
\* of m, and None or {} gives an empty scale; in every other case a
\* TypeError is raised and there is no scale
C16_ScaleConstruction ==
    [][(Build /\ mop'.arg \in ScaleClasses) =>
        IF GradeErrors(req'.data) = {} /\ ValueErrors(req'.data) = {}
        THEN /\ ~Raised(mexc')
             /\ c' # NoHandle /\ c'.cls = mop'.arg
             /\ store'[c'.ref] = req'.data
             /\ req'.kind = "NoneType" => store'[c'.ref] = EmptyDict
        ELSE /\ mexc'.type = "TypeError"
             /\ c' = NoHandle]_vars

\* C17: when the validation of a scale's entries fails, the one error
\* raised lists every offending grade and, apart from them, every
\* offending value
C17_AllOffendersReported ==
    [][(/\ Build /\ mop'.arg \in ScaleClasses /\ AbstractMethods(mop'.arg) = {}
        /\ GradeErrors(req'.data) \cup ValueErrors(req'.data) # {}) =>
        /\ Raised(mexc')
        /\ \E i \in DOMAIN mexc'.lines :
                /\ mexc'.lines[i].label = "Rating grade errors"
                /\ SetOf(mexc'.lines[i].items) = GradeErrors(req'.data)
        /\ \E i \in DOMAIN mexc'.lines :
                /\ mexc'.lines[i].label = "Rating value errors"
                /\ Len(mexc'.lines[i].items) = Cardinality(ValueErrors(req'.data))]_vars

\* C18: an add validates the merged entries: add_rating_grades with a grade
\* that is no int and no str, or a value that is no float, raises TypeError;
\* add_metadata with a key that is no string or no identifier raises
\* MetadataError; in both cases nothing is returned and the container is
\* unchanged
C18_AddRevalidates ==
    [][mop'.op = "add" =>
        /\ (c.cls \in ScaleClasses
                /\ GradeErrors(req'.data) \cup ValueErrors(req'.data) # {}) =>
             (mexc'.type = "TypeError" /\ derived' = NoHandle)
        /\ (c.cls \in MetadataClasses
                /\ KeyTypeErrors(req'.data) \cup IdentifierErrors(req'.data) # {}) =>
             (mexc'.type = "MetadataError" /\ derived' = NoHandle)
        /\ c' = c /\ store'[c'.ref] = store[c.ref]]_vars

\* C19: Metadata(m) returns a container exactly when every key of m is a
\* string, an identifier and no reserved word; None or {} gives an empty
\* container; in every other case MetadataError is raised and it reports
\* every invalid key, the keys that are no string and the strings that are
\* no identifier
C19_MetadataConstruction ==
    [][(Build /\ mop'.arg = "Metadata") =>
        IF ValidMapping("Metadata", req'.data)
        THEN /\ ~Raised(mexc')
             /\ c' # NoHandle
             /\ store'[c'.ref] = req'.data
        ELSE /\ mexc'.type = "MetadataError"
             /\ c' = NoHandle
             /\ \A k \in KeyTypeErrors(req'.data) \cup IdentifierErrors(req'.data) :
                    \E i \in DOMAIN mexc'.lines : k \in SetOf(mexc'.lines[i].items)]_vars

\* getattr(self, name): the attribute _frozen is the container's own flag
HasAttr(h, name) ==
    IF name = "_frozen" THEN h.frozen # Unset ELSE name \in DOMAIN h.fields
GetAttr(h, name) ==
    CASE name = "_frozen" -> h.frozen
      [] name \in DOMAIN h.fields -> h.fields[name]
      [] OTHER -> Unset

\* C20: in every metadata container, made by the constructor, from_dict,
\* add_metadata or subset_metadata, the attribute named by a key is the
\* value under the key; after an add the attribute of an overridden key is
\* the new value; after a subset there is no attribute for a dropped key
C20_FieldsFollowEntries ==
    /\ \A h \in {c, derived} :
        (h # NoHandle /\ h.cls \in MetadataClasses) =>
            \A k \in DOMAIN store[h.ref] :
                HasAttr(h, k) /\ GetAttr(h, k) = store[h.ref][k]
    /\ (mop.op = "add" /\ derived # NoHandle /\ derived.cls \in MetadataClasses) =>
            \A k \in DOMAIN req.data : GetAttr(derived, k) = req.data[k]
    /\ (mop.op = "subset" /\ derived # NoHandle /\ derived.cls \in MetadataClasses) =>
            \A k \in DOMAIN store[c.ref] \ DOMAIN store[derived.ref] : ~HasAttr(derived, k)

\* a container as an operand: its class and its entries
Obj(h) == Arg(h.cls, store[h.ref])

\* C21: two containers of one class are equal exactly when they hold the
\* same entries; containers of different classes, a scale and a metadata
\* container among them, are unequal in either order, also when both are
\* empty; a container is unequal to a dict with its entries; == is
\* reflexive and symmetric
C21_Equality ==
    (c # NoHandle /\ derived # NoHandle) =>
        LET x == Obj(c)
            y == Obj(derived)
        IN  /\ x.cls = y.cls => (PyEq(x, y) <=> x.data = y.data)
            /\ x.cls # y.cls => (~PyEq(x, y) /\ ~PyEq(y, x))
            /\ ~PyEq(x, Arg("dict", x.data)) /\ ~PyEq(Arg("dict", x.data), x)
            /\ PyEq(x, x) /\ PyEq(y, y)
            /\ PyEq(x, y) <=> PyEq(y, x)

\* an empty scale beside an empty metadata container
C21_Witness ==
    /\ mop.op = "other"
    /\ c.cls = "ClientScale" /\ derived.cls = "ClientMetadata"
    /\ store[c.ref] = EmptyDict /\ store[derived.ref] = EmptyDict

\* C22: for every container, from_dict of its class on its to_dict()
\* returns a container equal to it, whose to_dict() equals its to_dict()
C22_ContainerRoundTrip ==
    mop.op = "round trip" =>
        /\ ~Raised(mexc) /\ derived # NoHandle
        /\ derived.cls = c.cls
        /\ PyEq(Obj(derived), Obj(c)) /\ PyEq(Obj(c), Obj(derived))
        /\ Mapping_to_dict(Obj(derived)) = Mapping_to_dict(Obj(c))

\* the round trip of a container with two entries
C22_Witness ==
    /\ mop.op = "round trip" /\ derived # NoHandle
    /\ Cardinality(DOMAIN store[c.ref]) = 2
    /\ store[derived.ref] = store[c.ref]


-----------------------------------------------------------------------------------------------------------------------------------------------------
(* Properties of the constructor arguments (Spec).  A constructor step is    *)
(* the step that sets call.                                                  *)

\* the raw mapping with the entries of a container argument
AsRaw(arg) == IF IsMapping(arg) THEN Arg("dict", arg.data) ELSE arg
\* the call with every container argument replaced by its raw mapping
RawCall(k) ==
    Call(k.cls, AsRaw(k.rating_scale), AsRaw(k.pd_rating_scale),
         AsRaw(k.lgd_rating_scale), AsRaw(k.metadata))
\* the arguments a call of the shape passes
ArgsOf(k) ==
    IF ShapeOf(k.cls) = "OneDimensionalRatingSystem"
    THEN {k.rating_scale, k.metadata}
    ELSE {k.pd_rating_scale, k.lgd_rating_scale, k.metadata}
\* the entries a rating system owns, by attribute
Owned(obj) == [a \in DOMAIN obj.attrs |-> obj.attrs[a].data]

\* C28: a constructor takes a raw mapping, None or a container for each scale
\* argument and for the metadata argument: a call with containers and the
\* call with the raw mappings of the same entries end alike, with the same
\* exception or with instances that own the same entries; a call with an
\* argument of any other type raises RatingScaleInputError and returns no
\* instance
C28_InputsInterchangeable ==
    [][call' # call =>
        LET raw == Construct("sys", call'.cls, RawCall(call'))
        IN  /\ raw.exc = exc'
            /\ Owned(raw.obj) = Owned(sys')
            /\ OtherArg \in ArgsOf(call') =>
                 (exc'.type = "RatingScaleInputError" /\ sys' = NoInstance)]_vars

\* the exception of the first stage that fails, in the order scale input,
\* metadata input, required metadata, grades
FirstFailure(cls, k) ==
    LET s1 == ScaleStage(ShapeOf(cls), k)
        s2 == MetadataStage(k)
        s3 == RequiredStage(cls, k)
        s4 == GradeStage(cls, k)
    IN  IF Raised(s1) THEN s1
        ELSE IF Raised(s2) THEN s2
        ELSE IF Raised(s3) THEN s3
        ELSE s4

\* C30: a constructor runs its checks in one order (the type and the
\* elements of the scale arguments, the type and the keys of the metadata
\* argument, the required metadata, the required grades last) and raises the
\* exception of the first check that fails, whatever later checks would
\* find; it returns an instance exactly when none fails
C30_FirstFailureReported ==
    [][call' # call =>
        /\ exc' = FirstFailure(call'.cls, call')
        /\ Raised(exc') <=> sys' = NoInstance]_vars
C30_Witness ==
    /\ sys = NoInstance /\ call # NoCall
    /\ ShapeOf(call.cls) = "OneDimensionalRatingSystem"
    /\ ~Raised(InputStage(ShapeOf(call.cls), call))
    /\ Raised(RequiredStage(call.cls, call))
    /\ Raised(GradeStage(call.cls, call))
    /\ exc = RequiredStage(call.cls, call)
    /\ exc # GradeStage(call.cls, call)

-----
(* Properties of the class factory (FactorySpec).  A step of FactoryCreate   *)
(* leaves held.from = "passed" and the count of edits as it was, a step of   *)
(* FactoryEdit adds one to the count, and no other step does either.         *)

CreateStep == held'.from = "passed" /\ held'.edits = held.edits
EditStep == held'.edits = held.edits + 1

\* the configuration lacks the field the shape of the class asks for
LacksField(cls, config) ==
    IF ShapeOf(cls) = "OneDimensionalRatingSystem"
    THEN ~config.required_grades.present
    ELSE \/ ~config.required_grade_dimensions.present
         \/ ~config.required_grade_dimensions.pd.present
         \/ ~config.required_grade_dimensions.lgd.present

\* what the stages of a constructor that read the configuration raise for
\* arguments that are containers, under configuration cfg
ValidationOf(cfg, shape, k) ==
    LET r == Base_init(cfg, k.metadata)
        e == IF shape = "OneDimensionalRatingSystem"
             THEN validate_required_grades(cfg, InstanceOf(k.rating_scale))
             ELSE validate_required_grade_dimensions(cfg, InstanceOf(k.pd_rating_scale),
                                                     InstanceOf(k.lgd_rating_scale))
    IN  IF Raised(r.exc) THEN r.exc ELSE e

\* what cls(...) raises for each of the arguments a caller tries
Outcomes(cls) == [k \in Probes(ShapeOf(cls)) |-> Construct("sys", cls, k).exc]

\* the classes a step created
Created == DOMAIN classes' \ DOMAIN classes

\* C23: create_custom_class raises RatingScaleInputError and creates no class
\* exactly when the configuration lacks the field of the shape: required_grades
\* for a one-dimensional class; required_grade_dimensions, or its key pd or
\* lgd, for a PD/LGD class.  In every other case it returns one new class
\* whose base is the class it was called on
C23_FactoryValidation ==
    [][CreateStep =>
        /\ Raised(exc') <=> LacksField(held'.on, held'.config)
        /\ Raised(exc') => (exc'.type = "RatingScaleInputError" /\ classes' = classes)
        /\ ~Raised(exc') =>
             /\ Cardinality(Created) = 1
             /\ \A n \in Created :
                  /\ classes'[n].base = held'.on
                  /\ ShapeOf(n)' = ShapeOf(held'.on)]_vars
C23_Witness ==
    /\ held.from = "passed"
    /\ ShapeOf(held.on) = "PDLGDRatingSystem"
    /\ held.config.required_grade_dimensions.present
    /\ ~held.config.required_grade_dimensions.pd.present
    /\ exc.type = "RatingScaleInputError"

\* C24: the base shapes always hold the empty configuration and accept every
\* scale, and every class validates against exactly the configuration it
\* holds; a create_custom_class call changes no class that exists, base
\* shape or custom, and the class it creates holds exactly the configuration
\* of the call, also when it is created from a custom class
C24_FactoryPure ==
    /\ [](/\ \A b \in BaseShapes :
              /\ ConfigOf(b) = EmptyConfig
              /\ \A k \in Probes(b) : ~Raised(Construct("sys", b, k).exc)
          /\ \A n \in DOMAIN classes : \A k \in Probes(ShapeOf(n)) :
              Construct("sys", n, k).exc = ValidationOf(ConfigOf(n), ShapeOf(n), k))
    /\ [][CreateStep =>
            /\ \A n \in DOMAIN classes : classes'[n] = classes[n]
            /\ \A n \in Created : ConfigOf(n)' = held'.config]_vars
C24_Witness ==
    /\ held.from = "passed" /\ held.edits = 0
    /\ held.cls \in FactoryNames
    /\ held.on \in FactoryNames
    /\ ConfigOf(held.cls) = held.config
    /\ ConfigOf(held.on).required_metadata.present
    /\ ~held.config.required_metadata.present

\* C25: no change the caller makes to a configuration get_config() returned,
\* or to the one in a to_dict() result (a top-level key replaced, an item
\* appended to or removed from one of its lists), changes the configuration
\* of a class, what get_config() returns later or what the class accepts
C25_GetConfigCopies ==
    [][(held.from \in {"get_config", "to_dict"} /\ EditStep) =>
        \A n \in DOMAIN classes :
            /\ ConfigOf(n)' = ConfigOf(n)
            /\ get_config(n)' = get_config(n)
            /\ Outcomes(n)' = Outcomes(n)]_vars

\* C26: no change the caller makes to the configuration it passed to
\* create_custom_class (a key replaced, one of its lists changed in place)
\* changes the configuration of the class that was created, or what it accepts
C26_ConfigWriteOnce ==
    [][(held.from = "passed" /\ EditStep) =>
        \A n \in DOMAIN classes :
            ConfigOf(n)' = ConfigOf(n) /\ Outcomes(n)' = Outcomes(n)]_vars

-----------------------------------------------------------------------------
(* Properties of concurrent callers (ThreadSpec) *)

\* C27: whatever the interleaving of concurrent create_custom_class calls and
\* concurrent constructor calls on classes that exist, a constructor call
\* ends as the same call does when it runs alone, a create_custom_class call
\* fails as it does alone, and the class it creates holds the configuration
\* of its own call and the class it was called on as base
C27_CallsIndependent ==
    \A p \in Threads :
        LET t == procs.of[p]
        IN  t.pc = "done" =>
              IF t.op = "construct"
              THEN t.exc = Construct("sys", t.cls, t.k).exc
              ELSE /\ t.exc = create_custom_class(t.cls, t.config).exc
                   /\ ~Raised(t.exc) =>
                        classes[NameOf(p)] = [base |-> t.cls, config |-> t.config]
C27_Witness ==
    /\ procs.of[1].op = "construct" /\ procs.of[1].cls = "MySystem"
    /\ procs.of[1].pc = "done" /\ procs.of[1].exc.type = "RatingValidationError"
    /\ procs.of[2].op = "create" /\ procs.of[2].pc = "copied"
    /\ procs.of[2].config # ConfigOf("MySystem")

-----------------------------------------------------------------------------
(* Properties of the expected loss (LossSpec) *)

\* C29: get_expected_loss(pd_rating, lgd_rating, ead) returns the value of
\* the PD grade times the value of the LGD grade times the exposure, which is
\* 1.0 when the caller leaves it out, when the PD scale holds pd_rating and
\* the LGD scale holds lgd_rating; otherwise it raises KeyError, also when
\* the grade is one of the other dimension's scale
C29_ExpectedLoss ==
    loss # NoLoss =>
        LET pd == sys.attrs["pd_rating_scale"].data
            lgd == sys.attrs["lgd_rating_scale"].data
            exposure == IF loss.ead = Unset THEN [n |-> 100, per |-> 100]
                        ELSE Ratio(loss.ead)
        IN  IF loss.pd_rating \in DOMAIN pd /\ loss.lgd_rating \in DOMAIN lgd
            THEN /\ ~Raised(exc)
                 /\ loss.value.n = pd[loss.pd_rating].n * lgd[loss.lgd_rating].n * exposure.n
                 /\ loss.value.per = 100 * 100 * exposure.per
            ELSE exc.type = "KeyError" /\ loss.value = NoRatio
C29_Witness ==
    /\ loss # NoLoss /\ ~Raised(exc)
    /\ loss.ead = Unset
    /\ loss.pd_rating = "1" /\ loss.lgd_rating = "A"
    /\ DOMAIN sys.attrs["pd_rating_scale"].data = {"1"}
    /\ DOMAIN sys.attrs["lgd_rating_scale"].data = {"A"}
    /\ loss.value = [n |-> 1000, per |-> 1000000]

============================================================================
